---- MODULE Spec2Model ----
(***************************************************************************)
(* chomp: the free-text log command interpreter (src/logging.rs), the      *)
(* quantity parser, unit normalizer and macro scaler (src/food.rs) and the *)
(* catalog / log tables they read and write (src/db.rs).                   *)
(*                                                                         *)
(* Strings are sequences of one-character strings, so that trimming,       *)
(* splitting, lower-casing, suffix tests and number parsing are computed   *)
(* character by character as the code computes them.  An Option is a       *)
(* sequence of length 0 (None) or 1 (Some).  An f64 is a record: a finite  *)
(* value is the exact fraction n/d in lowest terms (rounding is not        *)
(* modelled), and the two infinities and NaN are values of their own with  *)
(* the IEEE-754 rules for * and /.                                         *)
(***************************************************************************)
EXTENDS Integers, Sequences, FiniteSets, TLC

VARIABLES foods, aliases, log, nextFoodId, nextLogId, foreign_keys,
          op, arg, ret, calls, logBefore, parsed,
          stdin, stdout, pc

vars == <<foods, aliases, log, nextFoodId, nextLogId, foreign_keys,
          op, arg, ret, calls, logBefore, parsed,
          stdin, stdout, pc>>

(***************************************************************************)
(* Bounds of the model.                                                    *)
(***************************************************************************)
\* most rows the catalog holds
MaxFoods == 2
\* most rows the log holds
MaxLog == 2
\* most tokens of a tokenizer input
MaxTokens == 3
\* most lines the server reads
MaxLines == 3

(***************************************************************************)
(* Option<T>                                                               *)
(***************************************************************************)
None == <<>>

Some(x) == <<x>>

IsSome(o) == Len(o) = 1

Unwrap(o) == o[1]

\* a `let` of the code: the value is computed once and named in what follows
Bind(value, Body(_)) == Body(value)

(***************************************************************************)
(* Characters and strings                                                  *)
(***************************************************************************)
Digits == <<"0","1","2","3","4","5","6","7","8","9">>

UpperCase == <<"A","B","C","D","E","F","G","H","I","J","K","L","M","N","O","P","Q","R","S","T","U","V","W","X","Y","Z">>

LowerCase == <<"a","b","c","d","e","f","g","h","i","j","k","l","m","n","o","p","q","r","s","t","u","v","w","x","y","z">>

DigitValue == [c \in {Digits[i] : i \in 1..10} |-> (CHOOSE i \in 1..10 : Digits[i] = c) - 1]

LowerOf == [c \in {UpperCase[i] : i \in 1..26} |-> LowerCase[CHOOSE i \in 1..26 : UpperCase[i] = c]]

\* char::is_ascii_digit, as the float parser of the standard library uses it
IsDigit(c) == c \in DOMAIN DigitValue

DigitVal(c) == DigitValue[c]

\* char::is_whitespace on the characters of the model
IsWhitespace(c) == c \in {" ", "\t", "\n"}

CharToLower(c) == IF c \in DOMAIN LowerOf THEN LowerOf[c] ELSE c

\* str::to_lowercase
to_lowercase(s) == [i \in 1..Len(s) |-> CharToLower(s[i])]

\* the first position from i on that holds no whitespace (Len(s) + 1 if none)
RECURSIVE SkipWhitespace(_, _)
SkipWhitespace(s, i) ==
    IF i > Len(s) \/ ~IsWhitespace(s[i]) THEN i ELSE SkipWhitespace(s, i + 1)

\* the last position up to i that holds no whitespace (0 if none)
RECURSIVE SkipWhitespaceBack(_, _)
SkipWhitespaceBack(s, i) ==
    IF i < 1 \/ ~IsWhitespace(s[i]) THEN i ELSE SkipWhitespaceBack(s, i - 1)

\* the first position from i on that holds whitespace (Len(s) + 1 if none)
RECURSIVE FindWhitespace(_, _)
FindWhitespace(s, i) ==
    IF i > Len(s) \/ IsWhitespace(s[i]) THEN i ELSE FindWhitespace(s, i + 1)

\* str::trim
trim(s) == SubSeq(s, SkipWhitespace(s, 1), SkipWhitespaceBack(s, Len(s)))

\* str::ends_with
ends_with(s, suffix) ==
    /\ Len(suffix) <= Len(s)
    /\ SubSeq(s, Len(s) - Len(suffix) + 1, Len(s)) = suffix

\* the maximal runs of non-whitespace characters of s from position i on, in order
RECURSIVE SplitFrom(_, _)
SplitFrom(s, i) ==
    LET b == SkipWhitespace(s, i)
        e == FindWhitespace(s, b)
    IN  IF b > Len(s) THEN <<>>
        ELSE <<SubSeq(s, b, e - 1)>> \o SplitFrom(s, e)

\* str::split_whitespace
split_whitespace(s) == SplitFrom(s, 1)

\* [&str]::join(" ")
RECURSIVE join(_)
join(ws) ==
    IF Len(ws) = 0 THEN <<>>
    ELSE IF Len(ws) = 1 THEN ws[1]
    ELSE ws[1] \o <<" ">> \o join(Tail(ws))

(***************************************************************************)
(* f64                                                                     *)
(***************************************************************************)
RECURSIVE Gcd(_, _)
Gcd(a, b) == IF b = 0 THEN a ELSE Gcd(b, a % b)

Abs(x) == IF x < 0 THEN -x ELSE x

Sign(x) == IF x < 0 THEN -1 ELSE 1

\* the finite value n/d (d > 0), in lowest terms
Fin(n, d) ==
    LET g == Gcd(Abs(n), d)
    IN  [k |-> "fin", n |-> Sign(n) * (Abs(n) \div g), d |-> d \div g]

Int64(n) == Fin(n, 1)

PosInf == [k |-> "inf", n |-> 1, d |-> 0]

NegInf == [k |-> "inf", n |-> -1, d |-> 0]

NaN == [k |-> "nan", n |-> 0, d |-> 0]

Infinity(sign) == IF sign < 0 THEN NegInf ELSE PosInf

is_finite(x) == x.k = "fin"

IsZero(x) == x.k = "fin" /\ x.n = 0

\* f64 * f64
FMul(a, b) ==
    IF a.k = "nan" \/ b.k = "nan" THEN NaN
    ELSE IF a.k = "inf" \/ b.k = "inf"
         THEN IF IsZero(a) \/ IsZero(b) THEN NaN
              ELSE Infinity(Sign(a.n) * Sign(b.n))
    ELSE Fin(a.n * b.n, a.d * b.d)

\* f64 / f64: a finite value over zero is an infinity and 0/0 is NaN
FDiv(a, b) ==
    IF a.k = "nan" \/ b.k = "nan" THEN NaN
    ELSE IF a.k = "inf"
         THEN IF b.k = "inf" THEN NaN ELSE Infinity(Sign(a.n) * Sign(b.n))
    ELSE IF b.k = "inf" THEN Fin(0, 1)
    ELSE IF b.n = 0
         THEN IF a.n = 0 THEN NaN ELSE Infinity(Sign(a.n))
    ELSE Fin(a.n * b.d * Sign(b.n), a.d * Abs(b.n))

RECURSIVE Pow10(_)
Pow10(e) == IF e = 0 THEN 1 ELSE 10 * Pow10(e - 1)

\* the number of ASCII digits at the start of s[lo..hi], found by halves so that
\* a long run of digits is not a deep recursion
RECURSIVE DigitRunIn(_, _, _)
DigitRunIn(s, lo, hi) ==
    IF lo > hi THEN 0
    ELSE IF lo = hi THEN (IF IsDigit(s[lo]) THEN 1 ELSE 0)
    ELSE LET mid == (lo + hi) \div 2
             left == DigitRunIn(s, lo, mid)
         IN  IF left = mid - lo + 1 THEN left + DigitRunIn(s, mid + 1, hi) ELSE left

\* the number of ASCII digits of s from position p on
DigitRun(s, p) == DigitRunIn(s, p, Len(s))

RECURSIVE DigitsToNat(_)
DigitsToNat(s) ==
    IF Len(s) = 0 THEN 0
    ELSE 10 * DigitsToNat(SubSeq(s, 1, Len(s) - 1)) + DigitVal(s[Len(s)])

\* the largest decimal exponent of a finite f64 (f64::MAX is about 1.8e308)
MaxExp10 == 308

\* the number of "0" characters of s from position p on
RECURSIVE ZeroRun(_, _)
ZeroRun(s, p) ==
    IF p > Len(s) \/ s[p] # "0" THEN 0 ELSE 1 + ZeroRun(s, p + 1)

\* core::num::dec2flt::parse::parse_number on an unsigned literal: digits, an
\* optional '.' and digits (a digit on one side at least), an optional exponent
\* with at least one digit, the whole string consumed.  A literal of more than
\* MaxExp10 + 1 integer digits (after the exponent is applied) is too large for
\* an f64 and parses to infinity, not to an error.
ParseNumber(s) ==
    LET ni == DigitRun(s, 1)
        p1 == 1 + ni
        hasDot == p1 <= Len(s) /\ s[p1] = "."
        nf == IF hasDot THEN DigitRun(s, p1 + 1) ELSE 0
        p2 == IF hasDot THEN p1 + 1 + nf ELSE p1
        hasExp == p2 <= Len(s) /\ s[p2] \in {"e", "E"}
        p3 == p2 + 1
        hasESign == hasExp /\ p3 <= Len(s) /\ s[p3] \in {"+", "-"}
        p4 == IF hasESign THEN p3 + 1 ELSE p3
        ne == IF hasExp THEN DigitRun(s, p4) ELSE 0
        pend == IF hasExp THEN p4 + ne ELSE p2
    IN  IF ni + nf = 0 \/ (hasExp /\ ne = 0) \/ pend # Len(s) + 1 THEN None
        ELSE Bind(SubSeq(s, 1, ni) \o SubSeq(s, p1 + 1, p1 + nf), LAMBDA digits :
             Bind(IF hasExp THEN DigitsToNat(SubSeq(s, p4, p4 + ne - 1)) ELSE 0, LAMBDA ex :
             Bind(hasESign /\ s[p3] = "-", LAMBDA neg :
             Bind(ZeroRun(digits, 1), LAMBDA lead :
                 IF lead = Len(digits) THEN Some(Fin(0, 1))
                 ELSE IF ni - lead - 1 + (IF neg THEN -ex ELSE ex) > MaxExp10
                      THEN Some(PosInf)
                 ELSE IF neg THEN Some(Fin(DigitsToNat(digits), Pow10(nf) * Pow10(ex)))
                 ELSE Some(Fin(DigitsToNat(digits) * Pow10(ex), Pow10(nf)))))))

\* core::num::dec2flt::parse::parse_inf_nan
ParseInfNan(s, sign) ==
    LET l == to_lowercase(s)
    IN  IF l = <<"n","a","n">> THEN Some(NaN)
        ELSE IF l = <<"i","n","f">> \/ l = <<"i","n","f","i","n","i","t","y">> THEN Some(Infinity(sign))
        ELSE None

FNeg(x) == [x EXCEPT !.n = -x.n]

\* str::parse::<f64>: Some(value), or None for Err
ParseF64(s) ==
    IF Len(s) = 0 THEN None
    ELSE LET signed == s[1] \in {"+", "-"}
             sign == IF s[1] = "-" THEN -1 ELSE 1
             body == IF signed THEN Tail(s) ELSE s
         IN  IF Len(body) = 0 THEN None
             ELSE Bind(ParseNumber(body), LAMBDA num :
                      IF IsSome(num)
                      THEN IF sign < 0 THEN Some(FNeg(Unwrap(num))) ELSE num
                      ELSE ParseInfNan(body, sign))

(***************************************************************************)
(* src/food.rs                                                             *)
(***************************************************************************)
\* char::is_numeric on the characters of the model
IsNumeric(c) == IsDigit(c)

Oz == Fin(283495, 10000)

Lb == Fin(453592, 1000)

\* to_grams that rejects a unit it has no factor for
to_grams_unknown_unit_fails(value, unit) ==
    LET u == to_lowercase(unit)
    IN  IF u \in {<<"g">>, <<"g","r","a","m">>, <<"g","r","a","m","s">>} THEN Some(value)
        ELSE IF u \in {<<"o","z">>, <<"o","u","n","c","e">>, <<"o","u","n","c","e","s">>} THEN Some(FMul(value, Oz))
        ELSE IF u \in {<<"l","b">>, <<"l","b","s">>, <<"p","o","u","n","d">>, <<"p","o","u","n","d","s">>} THEN Some(FMul(value, Lb))
        ELSE IF u \in {<<"k","g">>, <<"k","i","l","o","g","r","a","m">>, <<"k","i","l","o","g","r","a","m","s">>} THEN Some(FMul(value, Int64(1000)))
        ELSE IF u \in {<<"m","l">>, <<"m","i","l","l","i","l","i","t","e","r">>, <<"m","i","l","l","i","l","i","t","e","r","s">>} THEN Some(value)
        ELSE IF u \in {<<"c","u","p">>, <<"c","u","p","s">>} THEN Some(FMul(value, Int64(240)))
        ELSE IF u \in {<<"t","b","s","p">>, <<"t","a","b","l","e","s","p","o","o","n">>, <<"t","a","b","l","e","s","p","o","o","n","s">>} THEN Some(FMul(value, Int64(15)))
        ELSE IF u \in {<<"t","s","p">>, <<"t","e","a","s","p","o","o","n">>, <<"t","e","a","s","p","o","o","n","s">>} THEN Some(FMul(value, Int64(5)))
        ELSE IF u \in {<<"b","a","r">>, <<"b","a","r","s">>, <<"p","i","e","c","e">>, <<"p","i","e","c","e","s">>,
                       <<"s","e","r","v","i","n","g">>, <<"s","e","r","v","i","n","g","s">>, <<"s","c","o","o","p">>, <<"s","c","o","o","p","s">>}
             THEN Some(FMul(value, Int64(100)))
        ELSE None

\* to_grams that compares the unit as written, without lower-casing it
to_grams_case_sensitive(value, unit) ==
    LET u == unit
    IN  IF u \in {<<"g">>, <<"g","r","a","m">>, <<"g","r","a","m","s">>} THEN Some(value)
        ELSE IF u \in {<<"o","z">>, <<"o","u","n","c","e">>, <<"o","u","n","c","e","s">>} THEN Some(FMul(value, Oz))
        ELSE IF u \in {<<"l","b">>, <<"l","b","s">>, <<"p","o","u","n","d">>, <<"p","o","u","n","d","s">>} THEN Some(FMul(value, Lb))
        ELSE IF u \in {<<"k","g">>, <<"k","i","l","o","g","r","a","m">>, <<"k","i","l","o","g","r","a","m","s">>} THEN Some(FMul(value, Int64(1000)))
        ELSE IF u \in {<<"m","l">>, <<"m","i","l","l","i","l","i","t","e","r">>, <<"m","i","l","l","i","l","i","t","e","r","s">>} THEN Some(value)
        ELSE IF u \in {<<"c","u","p">>, <<"c","u","p","s">>} THEN Some(FMul(value, Int64(240)))
        ELSE IF u \in {<<"t","b","s","p">>, <<"t","a","b","l","e","s","p","o","o","n">>, <<"t","a","b","l","e","s","p","o","o","n","s">>} THEN Some(FMul(value, Int64(15)))
        ELSE IF u \in {<<"t","s","p">>, <<"t","e","a","s","p","o","o","n">>, <<"t","e","a","s","p","o","o","n","s">>} THEN Some(FMul(value, Int64(5)))
        ELSE IF u \in {<<"b","a","r">>, <<"b","a","r","s">>, <<"p","i","e","c","e">>, <<"p","i","e","c","e","s">>,
                       <<"s","e","r","v","i","n","g">>, <<"s","e","r","v","i","n","g","s">>, <<"s","c","o","o","p">>, <<"s","c","o","o","p","s">>}
             THEN Some(FMul(value, Int64(100)))
        ELSE Some(value)

\* to_grams: Some(grams); no arm of the match returns None
to_grams(value, unit) ==
    LET u == to_lowercase(unit)
    IN  IF u \in {<<"g">>, <<"g","r","a","m">>, <<"g","r","a","m","s">>} THEN Some(value)
        ELSE IF u \in {<<"o","z">>, <<"o","u","n","c","e">>, <<"o","u","n","c","e","s">>} THEN Some(FMul(value, Oz))
        ELSE IF u \in {<<"l","b">>, <<"l","b","s">>, <<"p","o","u","n","d">>, <<"p","o","u","n","d","s">>} THEN Some(FMul(value, Lb))
        ELSE IF u \in {<<"k","g">>, <<"k","i","l","o","g","r","a","m">>, <<"k","i","l","o","g","r","a","m","s">>} THEN Some(FMul(value, Int64(1000)))
        ELSE IF u \in {<<"m","l">>, <<"m","i","l","l","i","l","i","t","e","r">>, <<"m","i","l","l","i","l","i","t","e","r","s">>} THEN Some(value)
        ELSE IF u \in {<<"c","u","p">>, <<"c","u","p","s">>} THEN Some(FMul(value, Int64(240)))
        ELSE IF u \in {<<"t","b","s","p">>, <<"t","a","b","l","e","s","p","o","o","n">>, <<"t","a","b","l","e","s","p","o","o","n","s">>} THEN Some(FMul(value, Int64(15)))
        ELSE IF u \in {<<"t","s","p">>, <<"t","e","a","s","p","o","o","n">>, <<"t","e","a","s","p","o","o","n","s">>} THEN Some(FMul(value, Int64(5)))
        ELSE IF u \in {<<"b","a","r">>, <<"b","a","r","s">>, <<"p","i","e","c","e">>, <<"p","i","e","c","e","s">>,
                       <<"s","e","r","v","i","n","g">>, <<"s","e","r","v","i","n","g","s">>, <<"s","c","o","o","p">>, <<"s","c","o","o","p","s">>}
             THEN Some(FMul(value, Int64(100)))
        ELSE Some(value)

\* the number of characters at the start of s[lo..hi] that are numeric or '.',
\* found by halves
RECURSIVE NumericRunIn(_, _, _)
NumericRunIn(s, lo, hi) ==
    IF lo > hi THEN 0
    ELSE IF lo = hi THEN (IF IsNumeric(s[lo]) \/ s[lo] = "." THEN 1 ELSE 0)
    ELSE LET mid == (lo + hi) \div 2
             left == NumericRunIn(s, lo, mid)
         IN  IF left = mid - lo + 1 THEN left + NumericRunIn(s, mid + 1, hi) ELSE left

\* the first position from i on that holds neither a numeric character nor '.'
\* (Len(s) + 1 if none)
FindNonNumeric(s, i) == i + NumericRunIn(s, i, Len(s))

\* Some(<<value, unit>>) or None
parse_quantity(str) ==
    LET s == to_lowercase(trim(str))
        num_end == FindNonNumeric(s, 1)
    IN  IF num_end <= Len(s)
        THEN LET num_str == SubSeq(s, 1, num_end - 1)
                 unit == trim(SubSeq(s, num_end, Len(s)))
             IN  Bind(ParseF64(num_str), LAMBDA num :
                     IF IsSome(num) THEN Some(<<Unwrap(num), unit>>) ELSE None)
        ELSE Bind(ParseF64(s), LAMBDA num :
                 IF IsSome(num) THEN Some(<<Unwrap(num), <<"g">>>>) ELSE None)

\* parse_amount_multiplier that divides the two values as written, not as grams
parse_amount_multiplier_ignores_units(amount, serving) ==
    Bind(parse_quantity(amount), LAMBDA a :
    Bind(parse_quantity(serving), LAMBDA s :
        IF ~IsSome(a) THEN None
        ELSE IF ~IsSome(s) THEN None
        ELSE Some(FDiv(Unwrap(a)[1], Unwrap(s)[1]))))

\* parse_amount_multiplier that divides the serving by the amount
parse_amount_multiplier_inverted(amount, serving) ==
    Bind(parse_quantity(amount), LAMBDA a :
    Bind(parse_quantity(serving), LAMBDA s :
        IF ~IsSome(a) THEN None
        ELSE IF ~IsSome(s) THEN None
        ELSE LET amount_grams == to_grams(Unwrap(a)[1], Unwrap(a)[2])
                 serving_grams == to_grams(Unwrap(s)[1], Unwrap(s)[2])
             IN  IF ~IsSome(amount_grams) THEN None
                 ELSE IF ~IsSome(serving_grams) THEN None
                 ELSE Some(FDiv(Unwrap(serving_grams), Unwrap(amount_grams)))))

\* Some(multiplier) or None
parse_amount_multiplier(amount, serving) ==
    Bind(parse_quantity(amount), LAMBDA a :
    Bind(parse_quantity(serving), LAMBDA s :
        IF ~IsSome(a) THEN None
        ELSE IF ~IsSome(s) THEN None
        ELSE LET amount_grams == to_grams(Unwrap(a)[1], Unwrap(a)[2])
                 serving_grams == to_grams(Unwrap(s)[1], Unwrap(s)[2])
             IN  IF ~IsSome(amount_grams) THEN None
                 ELSE IF ~IsSome(serving_grams) THEN None
                 ELSE Some(FDiv(Unwrap(amount_grams), Unwrap(serving_grams)))))

\* calculate with the calories left per serving
calculate_unscaled_calories(food, amount) ==
    Bind(parse_amount_multiplier(amount, food.serving), LAMBDA multiplier :
        IF ~IsSome(multiplier) THEN None
        ELSE Some([protein |-> FMul(food.protein, Unwrap(multiplier)),
                   fat |-> FMul(food.fat, Unwrap(multiplier)),
                   carbs |-> FMul(food.carbs, Unwrap(multiplier)),
                   calories |-> food.calories]))

\* Food::calculate: Some(Macros) or None
calculate(food, amount) ==
    Bind(parse_amount_multiplier(amount, food.serving), LAMBDA multiplier :
        IF ~IsSome(multiplier) THEN None
        ELSE Some([protein |-> FMul(food.protein, Unwrap(multiplier)),
                   fat |-> FMul(food.fat, Unwrap(multiplier)),
                   carbs |-> FMul(food.carbs, Unwrap(multiplier)),
                   calories |-> FMul(food.calories, Unwrap(multiplier))]))

(***************************************************************************)
(* src/logging.rs: the tokenizer                                           *)
(***************************************************************************)
is_number(s) == IsSome(ParseF64(s))

units ==
    {<<"g">>, <<"g","r","a","m">>, <<"g","r","a","m","s">>,
     <<"o","z">>, <<"o","u","n","c","e">>, <<"o","u","n","c","e","s">>,
     <<"l","b">>, <<"l","b","s">>, <<"p","o","u","n","d">>, <<"p","o","u","n","d","s">>,
     <<"k","g">>, <<"k","i","l","o","g","r","a","m">>, <<"k","i","l","o","g","r","a","m","s">>,
     <<"m","l">>, <<"m","i","l","l","i","l","i","t","e","r">>, <<"m","i","l","l","i","l","i","t","e","r","s">>,
     <<"l">>, <<"l","i","t","e","r">>, <<"l","i","t","e","r","s">>,
     <<"c","u","p">>, <<"c","u","p","s">>,
     <<"t","b","s","p">>, <<"t","a","b","l","e","s","p","o","o","n">>, <<"t","a","b","l","e","s","p","o","o","n","s">>,
     <<"t","s","p">>, <<"t","e","a","s","p","o","o","n">>, <<"t","e","a","s","p","o","o","n","s">>,
     <<"b","a","r">>, <<"b","a","r","s">>,
     <<"p","i","e","c","e">>, <<"p","i","e","c","e","s">>,
     <<"s","e","r","v","i","n","g">>, <<"s","e","r","v","i","n","g","s">>,
     <<"s","c","o","o","p">>, <<"s","c","o","o","p","s">>,
     <<"s","l","i","c","e">>, <<"s","l","i","c","e","s">>}

is_unit(s) == to_lowercase(s) \in units

\* the unit suffixes is_amount tries
amount_units == {<<"g">>, <<"o","z">>, <<"m","l">>, <<"l","b">>, <<"k","g">>, <<"l">>}

is_amount(str) ==
    LET s == to_lowercase(str)
    IN  \E unit \in amount_units :
            /\ ends_with(s, unit)
            /\ IsSome(ParseF64(SubSeq(s, 1, Len(s) - Len(unit))))

\* parse_input with the leading-number rule tried before the trailing-amount rules
parse_input_number_first(raw) ==
    LET input == trim(raw)
        words == split_whitespace(input)
        n == Len(words)
    IN  IF n = 0 THEN <<<<>>, None>>
        ELSE IF n = 1 THEN <<words[1], None>>
        ELSE IF is_number(words[1]) /\ n >= 2
             THEN <<join(Tail(words)), Some(words[1])>>
        ELSE IF is_number(words[n - 1]) /\ is_unit(words[n])
             THEN <<join(SubSeq(words, 1, n - 2)), Some(words[n - 1] \o <<" ">> \o words[n])>>
        ELSE IF is_amount(words[n])
             THEN <<join(SubSeq(words, 1, n - 1)), Some(words[n])>>
        ELSE <<input, None>>

\* parse_input with the leading number taking the next token as its unit
parse_input_count_with_unit(raw) ==
    LET input == trim(raw)
        words == split_whitespace(input)
        n == Len(words)
    IN  IF n = 0 THEN <<<<>>, None>>
        ELSE IF n = 1 THEN <<words[1], None>>
        ELSE IF is_number(words[n - 1]) /\ is_unit(words[n])
             THEN <<join(SubSeq(words, 1, n - 2)), Some(words[n - 1] \o <<" ">> \o words[n])>>
        ELSE IF is_amount(words[n])
             THEN <<join(SubSeq(words, 1, n - 1)), Some(words[n])>>
        ELSE IF is_number(words[1]) /\ n >= 2
             THEN <<join(Tail(words)), Some(words[1] \o <<" ">> \o words[2])>>
        ELSE <<input, None>>

\* parse_input without the early return for a single token
parse_input_no_single_token_return(raw) ==
    LET input == trim(raw)
        words == split_whitespace(input)
        n == Len(words)
    IN  IF n = 0 THEN <<<<>>, None>>
        ELSE IF n >= 2 /\ is_number(words[n - 1]) /\ is_unit(words[n])
             THEN <<join(SubSeq(words, 1, n - 2)), Some(words[n - 1] \o <<" ">> \o words[n])>>
        ELSE IF is_amount(words[n])
             THEN <<join(SubSeq(words, 1, n - 1)), Some(words[n])>>
        ELSE IF is_number(words[1]) /\ n >= 2
             THEN <<join(Tail(words)), Some(words[1])>>
        ELSE <<input, None>>

\* <<food name, Option<amount>>>
parse_input(raw) ==
    LET input == trim(raw)
        words == split_whitespace(input)
        n == Len(words)
    IN  IF n = 0 THEN <<<<>>, None>>
        ELSE IF n = 1 THEN <<words[1], None>>
        ELSE IF is_number(words[n - 1]) /\ is_unit(words[n])
             THEN <<join(SubSeq(words, 1, n - 2)), Some(words[n - 1] \o <<" ">> \o words[n])>>
        ELSE IF is_amount(words[n])
             THEN <<join(SubSeq(words, 1, n - 1)), Some(words[n])>>
        ELSE IF is_number(words[1]) /\ n >= 2
             THEN <<join(Tail(words)), Some(words[1])>>
        ELSE <<input, None>>

(***************************************************************************)
(* src/db.rs: the foods, aliases and log tables                            *)
(***************************************************************************)
\* Local::now().format("%Y-%m-%d")
Today == "today"

\* the row of the set with the least id (rows come back in rowid order)
FirstRow(rows) == CHOOSE r \in rows : \A q \in rows : r.id <= q.id

\* Food::new
FoodNew(name, protein, fat, carbs, calories, serving, als) ==
    [id |-> None, name |-> name, protein |-> protein, fat |-> fat, carbs |-> carbs,
     calories |-> calories, serving |-> serving, aliases |-> als, default_amount |-> None]

\* the aliases of the food inserted in order, up to the first one that the
\* UNIQUE constraint on aliases.alias rejects
RECURSIVE InsertAliases(_, _, _)
InsertAliases(als, food_id, new) ==
    IF Len(new) = 0 THEN [aliases |-> als, ok |-> TRUE]
    ELSE IF \E a \in als : a.alias = new[1] THEN [aliases |-> als, ok |-> FALSE]
    ELSE InsertAliases(als \cup {[food_id |-> food_id, alias |-> new[1]]}, food_id, Tail(new))

\* Database::add_food: the tables after the call and its result
add_food(db, food) ==
    IF \E f \in db.foods : f.name = food.name
    THEN [foods |-> db.foods, aliases |-> db.aliases, nextFoodId |-> db.nextFoodId,
          ret |-> <<"Err", "UNIQUE constraint failed: foods.name">>]
    ELSE LET food_id == db.nextFoodId
             row == [id |-> food_id, name |-> food.name, protein |-> food.protein,
                     fat |-> food.fat, carbs |-> food.carbs, calories |-> food.calories,
                     serving |-> food.serving, default_amount |-> food.default_amount]
             ins == InsertAliases(db.aliases, food_id, food.aliases)
         IN  [foods |-> db.foods \cup {row}, aliases |-> ins.aliases,
              nextFoodId |-> food_id + 1,
              ret |-> IF ins.ok THEN <<"Ok", food_id>>
                      ELSE <<"Err", "UNIQUE constraint failed: aliases.alias">>]

\* the Food a row of foods is read into
RowToFood(r) ==
    [id |-> Some(r.id), name |-> r.name, protein |-> r.protein, fat |-> r.fat,
     carbs |-> r.carbs, calories |-> r.calories, serving |-> r.serving,
     aliases |-> <<>>, default_amount |-> r.default_amount]

\* Database::get_food_by_name: Some(Food) or None
get_food_by_name(db, name) ==
    LET name_lower == to_lowercase(name)
        exact == {f \in db.foods : to_lowercase(f.name) = name_lower}
        byAlias == {f \in db.foods : \E a \in db.aliases :
                        a.food_id = f.id /\ to_lowercase(a.alias) = name_lower}
    IN  IF exact # {} THEN Some(RowToFood(FirstRow(exact)))
        ELSE IF byAlias # {} THEN Some(RowToFood(FirstRow(byAlias)))
        ELSE None

\* SQLite binds a NaN as NULL, which the NOT NULL columns of log reject
NotNull(x) == x.k # "nan"

\* Option::unwrap_or
unwrap_or(o, default) == IF IsSome(o) THEN Unwrap(o) ELSE default

\* f64 + f64
FAdd(a, b) ==
    IF a.k = "nan" \/ b.k = "nan" THEN NaN
    ELSE IF a.k = "inf" /\ b.k = "inf" THEN (IF a.n = b.n THEN a ELSE NaN)
    ELSE IF a.k = "inf" THEN a
    ELSE IF b.k = "inf" THEN b
    ELSE LET g == Gcd(a.d, b.d)
         IN  Fin(a.n * (b.d \div g) + b.n * (a.d \div g), (a.d \div g) * b.d)

\* Database::edit_food: the foods table after the call and its result.  The
\* UPDATE changes the rows whose name, lower-cased, is the name given
edit_food(db, name, protein, fat, carbs, serving) ==
    Bind(get_food_by_name(db, name), LAMBDA found :
        IF ~IsSome(found)
        THEN [foods |-> db.foods, ret |-> <<"Err", "Food not found", name>>]
        ELSE LET food == Unwrap(found)
                 new_protein == unwrap_or(protein, food.protein)
                 new_fat == unwrap_or(fat, food.fat)
                 new_carbs == unwrap_or(carbs, food.carbs)
                 new_calories == FAdd(FAdd(FMul(new_protein, Int64(4)),
                                           FMul(new_fat, Int64(9))),
                                      FMul(new_carbs, Int64(4)))
                 matches(r) == to_lowercase(r.name) = to_lowercase(name)
                 update(r) == [r EXCEPT !.protein = unwrap_or(protein, @),
                                        !.fat = unwrap_or(fat, @),
                                        !.carbs = unwrap_or(carbs, @),
                                        !.serving = unwrap_or(serving, @),
                                        !.calories = new_calories]
                 supplied == (IF IsSome(protein) THEN {Unwrap(protein)} ELSE {})
                             \cup (IF IsSome(fat) THEN {Unwrap(fat)} ELSE {})
                             \cup (IF IsSome(carbs) THEN {Unwrap(carbs)} ELSE {})
                             \cup {new_calories}
             IN  IF (\E r \in db.foods : matches(r)) /\ (\E x \in supplied : ~NotNull(x))
                 THEN [foods |-> db.foods, ret |-> <<"Err", "NOT NULL constraint failed">>]
                 ELSE [foods |-> {IF matches(r) THEN update(r) ELSE r : r \in db.foods},
                       ret |-> <<"Ok">>])

\* Database::log_food: the log after the call and its result
log_food(db, food_id, amount, macros) ==
    IF ~(NotNull(macros.protein) /\ NotNull(macros.fat)
         /\ NotNull(macros.carbs) /\ NotNull(macros.calories))
    THEN [log |-> db.log, nextLogId |-> db.nextLogId,
          ret |-> <<"Err", "NOT NULL constraint failed">>]
    ELSE LET id == db.nextLogId
             row == [id |-> id, date |-> Today, food_id |-> food_id, amount |-> amount,
                     protein |-> macros.protein, fat |-> macros.fat,
                     carbs |-> macros.carbs, calories |-> macros.calories]
             named == {f \in db.foods : f.id = food_id}
         IN  IF named = {}
             THEN [log |-> db.log \cup {row}, nextLogId |-> id + 1,
                   ret |-> <<"Err", "QueryReturnedNoRows">>]
             ELSE [log |-> db.log \cup {row}, nextLogId |-> id + 1,
                   ret |-> <<"Ok", [id |-> Some(id), date |-> Today,
                                    food_name |-> FirstRow(named).name,
                                    food_id |-> food_id, amount |-> amount,
                                    protein |-> macros.protein, fat |-> macros.fat,
                                    carbs |-> macros.carbs,
                                    calories |-> macros.calories]>>]

(***************************************************************************)
(* src/logging.rs: parse_and_log                                           *)
(***************************************************************************)
\* actual_amount with the food's default taken before the amount given
actual_amount_default_first(amount, food) ==
    IF IsSome(food.default_amount) THEN Unwrap(food.default_amount)
    ELSE IF IsSome(amount) THEN Unwrap(amount)
    ELSE food.serving

\* the amount scaled by: the one given, else the food's default, else one serving
actual_amount(amount, food) ==
    IF IsSome(amount) THEN Unwrap(amount)
    ELSE IF IsSome(food.default_amount) THEN Unwrap(food.default_amount)
    ELSE food.serving

\* Macros::default
MacrosDefault ==
    [protein |-> Int64(0), fat |-> Int64(0), carbs |-> Int64(0), calories |-> Int64(0)]

\* parse_and_log that records the entry with empty macros before scaling
parse_and_log_logs_before_scaling(db, input) ==
    Bind(parse_input(input), LAMBDA p :
    Bind(get_food_by_name(db, p[1]), LAMBDA found :
        IF ~IsSome(found)
        THEN [log |-> db.log, nextLogId |-> db.nextLogId,
              calls |-> <<"get_food_by_name">>,
              ret |-> <<"Err", "Food not found", p[1]>>]
        ELSE LET food == Unwrap(found)
                 actual == actual_amount(p[2], food)
             IN  Bind(calculate(food, actual), LAMBDA macros :
                 Bind(log_food(db, Unwrap(food.id), actual,
                               IF IsSome(macros) THEN Unwrap(macros) ELSE MacrosDefault),
                      LAMBDA entry :
                     IF ~IsSome(macros)
                     THEN [log |-> entry.log, nextLogId |-> entry.nextLogId,
                           calls |-> <<"get_food_by_name", "log_food">>,
                           ret |-> <<"Err", "Could not calculate macros", actual, food.name>>]
                     ELSE [log |-> entry.log, nextLogId |-> entry.nextLogId,
                           calls |-> <<"get_food_by_name", "log_food">>,
                           ret |-> entry.ret]))))

\* parse_and_log that looks the whole text up again when the name is not found
parse_and_log_retries_lookup(db, input) ==
    Bind(parse_input(input), LAMBDA p :
    Bind(get_food_by_name(db, p[1]), LAMBDA first :
    Bind(IF IsSome(first) THEN first ELSE get_food_by_name(db, trim(input)), LAMBDA found :
        LET lookups == IF IsSome(first) THEN <<"get_food_by_name">>
                       ELSE <<"get_food_by_name", "get_food_by_name">>
        IN  IF ~IsSome(found)
            THEN [log |-> db.log, nextLogId |-> db.nextLogId,
                  calls |-> lookups,
                  ret |-> <<"Err", "Food not found", p[1]>>]
            ELSE LET food == Unwrap(found)
                     actual == actual_amount(p[2], food)
                 IN  Bind(calculate(food, actual), LAMBDA macros :
                         IF ~IsSome(macros)
                         THEN [log |-> db.log, nextLogId |-> db.nextLogId,
                               calls |-> lookups,
                               ret |-> <<"Err", "Could not calculate macros",
                                         actual, food.name>>]
                         ELSE Bind(log_food(db, Unwrap(food.id), actual, Unwrap(macros)),
                                   LAMBDA entry :
                                  [log |-> entry.log, nextLogId |-> entry.nextLogId,
                                   calls |-> lookups \o <<"log_food">>,
                                   ret |-> entry.ret])))))

\* parse_and_log: the log after the call, the result, and the collaborator
\* calls made, in order
parse_and_log(db, input) ==
    Bind(parse_input(input), LAMBDA p :
    Bind(get_food_by_name(db, p[1]), LAMBDA found :
        IF ~IsSome(found)
        THEN [log |-> db.log, nextLogId |-> db.nextLogId,
              calls |-> <<"get_food_by_name">>,
              ret |-> <<"Err", "Food not found", p[1]>>]
        ELSE LET food == Unwrap(found)
                 actual == actual_amount(p[2], food)
             IN  Bind(calculate(food, actual), LAMBDA macros :
                     IF ~IsSome(macros)
                     THEN [log |-> db.log, nextLogId |-> db.nextLogId,
                           calls |-> <<"get_food_by_name">>,
                           ret |-> <<"Err", "Could not calculate macros", actual, food.name>>]
                     ELSE Bind(log_food(db, Unwrap(food.id), actual, Unwrap(macros)),
                               LAMBDA entry :
                              [log |-> entry.log, nextLogId |-> entry.nextLogId,
                               calls |-> <<"get_food_by_name", "log_food">>,
                               ret |-> entry.ret]))))


(***************************************************************************)
(* src/db.rs: the log read, totalled, edited and deleted from              *)
(***************************************************************************)
\* the row of the set with the greatest id
LastRow(rows) == CHOOSE r \in rows : \A q \in rows : r.id >= q.id

\* the LogEntry a row of log JOIN foods is read into
RowToEntry(l, f) ==
    [id |-> Some(l.id), date |-> l.date, food_name |-> f.name, food_id |-> l.food_id,
     amount |-> l.amount, protein |-> l.protein, fat |-> l.fat, carbs |-> l.carbs,
     calories |-> l.calories]

\* SELECT ... FROM log l JOIN foods f ON l.food_id = f.id over the rows given:
\* the entries of the rows whose food is in the catalog
Joined(db, rows) ==
    {RowToEntry(p[1], p[2]) : p \in {q \in rows \X db.foods : q[1].food_id = q[2].id}}

\* SUM(column) of the rows, in rowid order
RECURSIVE Sum(_, _)
Sum(rows, column) ==
    IF rows = {} THEN Int64(0)
    ELSE LET r == LastRow(rows)
         IN  FAdd(Sum(rows \ {r}, column), r[column])

\* Database::get_today_totals: COALESCE(SUM(column), 0) FROM log WHERE date = today
get_today_totals(db) ==
    LET rows == {l \in db.log : l.date = Today}
    IN  [protein |-> Sum(rows, "protein"), fat |-> Sum(rows, "fat"),
         carbs |-> Sum(rows, "carbs"), calories |-> Sum(rows, "calories")]

\* the days chrono's dates reach back from today: some 262,000 years
MaxHistoryDays == 96000000

\* Local::now().checked_sub_signed(Duration::days(days)): None when the date
\* is out of chrono's range
start_date(days) == IF days > MaxHistoryDays THEN None ELSE Some(Today)

\* WHERE l.date >= start_date: every row carries the date of the day it was
\* written on and the model's clock stays within one day, so the rows since the
\* start date of any number of days are the rows of today
Since(rows, days) == {l \in rows : l.date = Today}

\* the entries in ORDER BY id DESC
RECURSIVE OrderByIdDesc(_)
OrderByIdDesc(entries) ==
    IF entries = {} THEN <<>>
    ELSE LET e == CHOOSE x \in entries : \A y \in entries : Unwrap(x.id) >= Unwrap(y.id)
         IN  <<e>> \o OrderByIdDesc(entries \ {e})

\* Database::get_history: the entries of log JOIN foods since the start date,
\* latest first; the unwrap of a start date out of range panics
get_history(db, days) ==
    IF ~IsSome(start_date(days)) THEN <<"panic", "called Option::unwrap() on a None value">>
    ELSE <<"Ok", OrderByIdDesc(Joined(db, Since(db.log, days)))>>

\* Database::delete_food: the tables after DELETE FROM foods WHERE LOWER(name) =
\* LOWER(?) and its result.  With foreign keys enforced the statement fails when
\* a row of the log refers to a food it would delete, and the aliases of a
\* deleted food go with it (ON DELETE CASCADE); without, the rows of the log and
\* of aliases stay as they are
delete_food(db, name, enforced) ==
    LET gone == {f \in db.foods : to_lowercase(f.name) = to_lowercase(name)}
        ids == {f.id : f \in gone}
    IN  IF enforced /\ (\E l \in db.log : l.food_id \in ids)
        THEN [foods |-> db.foods, aliases |-> db.aliases,
              ret |-> <<"Err", "FOREIGN KEY constraint failed">>]
        ELSE [foods |-> db.foods \ gone,
              aliases |-> IF enforced THEN {a \in db.aliases : a.food_id \notin ids}
                          ELSE db.aliases,
              ret |-> <<"Ok">>]

\* Database::delete_log_entry: the log after the call and its result
delete_log_entry(db, id) ==
    LET found == Joined(db, {l \in db.log : l.id = id})
    IN  IF found = {}
        THEN [log |-> db.log, ret |-> <<"Err", "QueryReturnedNoRows">>]
        ELSE [log |-> {l \in db.log : l.id # id},
              ret |-> <<"Ok", CHOOSE e \in found : TRUE>>]

\* Database::delete_last_log_entry
delete_last_log_entry(db) ==
    IF db.log = {}
    THEN [log |-> db.log, ret |-> <<"Err", "QueryReturnedNoRows">>]
    ELSE delete_log_entry(db, LastRow(db.log).id)

\* Database::edit_log_entry: the log after the call and its result.  The
\* UPDATE sets the columns of the fields given, and calories when a macro is
\* among them; the entry returned carries the recomputed calories either way
edit_log_entry(db, id, amount, protein, fat, carbs) ==
    LET found == Joined(db, {l \in db.log : l.id = id})
    IN  IF found = {}
        THEN [log |-> db.log, ret |-> <<"Err", "QueryReturnedNoRows">>]
        ELSE LET entry == CHOOSE e \in found : TRUE
                 new_amount == unwrap_or(amount, entry.amount)
                 new_protein == unwrap_or(protein, entry.protein)
                 new_fat == unwrap_or(fat, entry.fat)
                 new_carbs == unwrap_or(carbs, entry.carbs)
                 new_calories == FAdd(FAdd(FMul(new_protein, Int64(4)),
                                           FMul(new_fat, Int64(9))),
                                      FMul(new_carbs, Int64(4)))
                 macro == IsSome(protein) \/ IsSome(fat) \/ IsSome(carbs)
                 update(l) == [l EXCEPT !.amount = unwrap_or(amount, @),
                                        !.protein = unwrap_or(protein, @),
                                        !.fat = unwrap_or(fat, @),
                                        !.carbs = unwrap_or(carbs, @),
                                        !.calories = IF macro THEN new_calories ELSE @]
                 bound == (IF IsSome(protein) THEN {new_protein} ELSE {})
                          \cup (IF IsSome(fat) THEN {new_fat} ELSE {})
                          \cup (IF IsSome(carbs) THEN {new_carbs} ELSE {})
                          \cup (IF macro THEN {new_calories} ELSE {})
             IN  IF ~IsSome(amount) /\ ~macro
                 THEN [log |-> db.log, ret |-> <<"Ok", entry>>]
                 ELSE IF \E x \in bound : ~NotNull(x)
                 THEN [log |-> db.log, ret |-> <<"Err", "NOT NULL constraint failed">>]
                 ELSE [log |-> {IF l.id = id THEN update(l) ELSE l : l \in db.log},
                       ret |-> <<"Ok", [id |-> Some(id), date |-> entry.date,
                                        food_name |-> entry.food_name,
                                        food_id |-> entry.food_id,
                                        amount |-> new_amount, protein |-> new_protein,
                                        fat |-> new_fat, carbs |-> new_carbs,
                                        calories |-> new_calories]>>]
(***************************************************************************)
(* The inputs of the model                                                 *)
(***************************************************************************)
\* the spec's example entry, with an alias
Ribeye ==
    FoodNew(<<"r","i","b","e","y","e">>, Int64(23), Int64(15), Int64(0), Int64(247), <<"1","0","0","g">>, <<<<"s","t","e","a","k">>>>)

\* a discrete item with a default amount
BareBar ==
    [FoodNew(<<"b","a","r","e"," ","b","a","r">>, Int64(12), Int64(7), Int64(20), Int64(191), <<"1"," ","b","a","r">>, <<>>)
        EXCEPT !.default_amount = Some(<<"2"," ","b","a","r","s">>)]

\* a serving of zero grams
Zero ==
    FoodNew(<<"z","e","r","o">>, Int64(1), Int64(1), Int64(1), Int64(17), <<"0","g">>, <<>>)

FoodPool == {Ribeye, BareBar, Zero}

\* the texts given to parse_and_log
LogInputs ==
    {<<"r","i","b","e","y","e"," ","8","o","z">>, <<"S","t","e","a","k"," ","4"," ","o","z">>, <<"r","i","b","e","y","e">>,
     <<"b","a","r","e"," ","b","a","r">>, <<"2"," ","b","a","r","e"," ","b","a","r">>,
     <<"t","o","f","u">>, <<>>, <<" ","\t">>, <<"r","i","b","e","y","e"," ","-","4"," ","o","z">>,
     <<"z","e","r","o"," ","8","o","z">>, <<"z","e","r","o">>}

\* the tokens the tokenizer's inputs are made of
TokVocab ==
    {<<"b","a","r","e">>, <<"e","g","g","s">>, <<"b","a","r">>, <<"b","a","r","s">>, <<"O","Z">>,
     <<"2">>, <<"i","n","f">>, <<"-","4">>,
     <<"8","o","z">>, <<"1","0","0","g">>, <<"5","0","M","L">>, <<"2","c","u","p","s">>, <<"1","e","3","g">>}

TokenSeqs == UNION {[1..n -> TokVocab] : n \in 1..MaxTokens}

\* the tokens separated by single spaces
Plain(ws) == join(ws)

\* the tokens with a space before, a tab after and two spaces between
RECURSIVE Spaced(_)
Spaced(ws) ==
    IF Len(ws) = 0 THEN <<"\t">>
    ELSE <<" ">> \o ws[1] \o (IF Len(ws) = 1 THEN <<>> ELSE <<" ">>) \o Spaced(Tail(ws))

TokInputs ==
    {Plain(ws) : ws \in TokenSeqs} \cup {Spaced(ws) : ws \in TokenSeqs} \cup {<<>>, <<" ","\t">>}

(***************************************************************************)
(* The log command line and the catalog under it                           *)
(***************************************************************************)
Db == [foods |-> foods, aliases |-> aliases, log |-> log,
       nextFoodId |-> nextFoodId, nextLogId |-> nextLogId]

\* the tables as Database::init creates them.  The schema declares foreign keys
\* and no statement of the program turns their enforcement on or off: whether
\* SQLite enforces them is fixed by the library the program is built with
Init ==
    /\ foods = {}
    /\ aliases = {}
    /\ log = {}
    /\ nextFoodId = 1
    /\ nextLogId = 1
    /\ foreign_keys \in BOOLEAN
    /\ stdin = <<>>
    /\ stdout = <<>>
    /\ pc = "main"
    /\ op = "init"
    /\ arg = <<>>
    /\ ret = <<"Ok">>
    /\ calls = <<>>
    /\ logBefore = {}
    /\ parsed = <<>>

\* chomp add / the add_food tool
AddFood(food) ==
    /\ nextFoodId <= MaxFoods
    /\ LET r == add_food(Db, food)
       IN  /\ foods' = r.foods
           /\ aliases' = r.aliases
           /\ nextFoodId' = r.nextFoodId
           /\ ret' = r.ret
    /\ op' = "add_food"
    /\ arg' = food.name
    /\ calls' = <<>>
    /\ logBefore' = log
    /\ UNCHANGED <<log, nextLogId, parsed, foreign_keys>>
    /\ UNCHANGED <<stdin, stdout, pc>>

\* chomp <text> / the log_food tool
ParseAndLog(input) ==
    /\ nextLogId <= MaxLog
    /\ LET r == parse_and_log(Db, input)
       IN  /\ log' = r.log
           /\ nextLogId' = r.nextLogId
           /\ ret' = r.ret
           /\ calls' = r.calls
    /\ op' = "parse_and_log"
    /\ arg' = input
    /\ logBefore' = log
    /\ UNCHANGED <<foods, aliases, nextFoodId, parsed, foreign_keys>>
    /\ UNCHANGED <<stdin, stdout, pc>>

Next ==
    \/ \E food \in FoodPool : AddFood(food)
    \/ \E input \in LogInputs : ParseAndLog(input)

Spec == Init /\ [][Next]_vars

(***************************************************************************)
(* The tokenizer alone, on every text made of up to MaxTokens tokens       *)
(***************************************************************************)
TokInit ==
    /\ arg \in TokInputs
    /\ op = "input"
    /\ parsed = <<>>
    /\ foods = {}
    /\ aliases = {}
    /\ log = {}
    /\ nextFoodId = 1
    /\ nextLogId = 1
    /\ foreign_keys = FALSE
    /\ stdin = <<>>
    /\ stdout = <<>>
    /\ pc = "main"
    /\ ret = <<"Ok">>
    /\ calls = <<>>
    /\ logBefore = {}

Tokenize ==
    /\ op = "input"
    /\ op' = "parse_input"
    /\ parsed' = parse_input(arg)
    /\ UNCHANGED <<foods, aliases, log, nextFoodId, nextLogId, arg, ret, calls, logBefore, foreign_keys>>
    /\ UNCHANGED <<stdin, stdout, pc>>

TokNext == Tokenize

TokSpec == TokInit /\ [][TokNext]_vars

(***************************************************************************)
(* The catalog under add and edit                                          *)
(***************************************************************************)
\* the names edit_food is given: a name in another letter case, an alias, a
\* name of no food, a name as stored
EditNames == {<<"R","i","b","e","y","e">>, <<"s","t","e","a","k">>, <<"t","o","f","u">>, <<"b","a","r","e"," ","b","a","r">>}

EditProtein == {None, Some(Int64(30))}

EditFat == {None, Some(Int64(10))}

EditCarbs == {None, Some(Int64(5))}

EditServing == {None, Some(<<"5","0","g">>)}

\* Database::edit_food
EditFood(name, protein, fat, carbs, serving) ==
    /\ LET r == edit_food(Db, name, protein, fat, carbs, serving)
       IN  /\ foods' = r.foods
           /\ ret' = r.ret
    /\ op' = "edit_food"
    /\ arg' = name
    /\ calls' = <<>>
    /\ logBefore' = log
    /\ UNCHANGED <<aliases, log, nextFoodId, nextLogId, parsed, foreign_keys>>
    /\ UNCHANGED <<stdin, stdout, pc>>

EditNext ==
    \/ \E food \in FoodPool : AddFood(food)
    \/ \E name \in EditNames, protein \in EditProtein, fat \in EditFat,
          carbs \in EditCarbs, serving \in EditServing :
            EditFood(name, protein, fat, carbs, serving)

EditSpec == Init /\ [][EditNext]_vars

(***************************************************************************)
(* The quantity parser, unit normalizer and macro scaler alone             *)
(***************************************************************************)
\* a literal of MaxExp10 + 2 digits: 1 followed by zeros
Huge == <<"1">> \o [i \in 1..(MaxExp10 + 1) |-> "0"]

\* quantity phrases
QtyAmounts ==
    {<<"1","0","0","g">>, <<"2","0","0","g">>, <<"1"," ","b","a","r">>, <<"8","o","z">>, <<" ","2"," ","C","u","p","s"," ">>, <<"1",".","5","k","g">>, <<"5">>, <<"0","g">>,
     <<"b","a","r">>, <<"-","5","g">>, <<>>, <<".">>, <<"1",".","2",".","3","g">>, <<"1","e","3","g">>, <<"2"," ","l">>, Huge}

\* unit words: those of the match in to_grams in several letter cases, those
\* the tokenizer knows besides, and words neither knows
QtyUnits ==
    {<<"g">>, <<"g","r","a","m">>, <<"g","r","a","m","s">>, <<"G">>, <<"o","z">>, <<"o","u","n","c","e">>, <<"o","u","n","c","e","s">>, <<"O","Z">>, <<"O","u","n","c","e","s">>,
     <<"l","b">>, <<"l","b","s">>, <<"p","o","u","n","d">>, <<"p","o","u","n","d","s">>, <<"L","B","S">>, <<"k","g">>, <<"k","i","l","o","g","r","a","m">>, <<"k","i","l","o","g","r","a","m","s">>, <<"K","g">>,
     <<"m","l">>, <<"m","i","l","l","i","l","i","t","e","r">>, <<"m","i","l","l","i","l","i","t","e","r","s">>, <<"M","L">>, <<"c","u","p">>, <<"c","u","p","s">>, <<"C","u","p","s">>,
     <<"t","b","s","p">>, <<"t","a","b","l","e","s","p","o","o","n">>, <<"t","a","b","l","e","s","p","o","o","n","s">>, <<"T","B","S","P">>, <<"t","s","p">>, <<"t","e","a","s","p","o","o","n">>, <<"t","e","a","s","p","o","o","n","s">>,
     <<"T","s","p">>, <<"b","a","r">>, <<"b","a","r","s">>, <<"p","i","e","c","e">>, <<"p","i","e","c","e","s">>, <<"s","e","r","v","i","n","g">>, <<"s","e","r","v","i","n","g","s">>, <<"s","c","o","o","p">>,
     <<"s","c","o","o","p","s">>, <<"B","A","R">>, <<"S","c","o","o","p","s">>,
     <<"l">>, <<"l","i","t","e","r">>, <<"l","i","t","e","r","s">>, <<"L">>, <<"s","l","i","c","e">>, <<"s","l","i","c","e","s">>,
     <<>>, <<"e","g","g","s">>, <<"e","3","g">>}

QtyStrings == QtyAmounts \cup QtyUnits

QtyServings == {<<"1","0","0","g">>, <<"1"," ","b","a","r">>, <<"2"," ","o","z">>, <<"0","g">>, <<"b","a","r">>}

QtyValues == {Int64(0), Int64(100), Fin(3, 2), Int64(-4), PosInf, NaN}

\* per-serving protein, fat, carbs, calories
MacroPool ==
    {<<Int64(23), Int64(15), Int64(0), Int64(247)>>,
     <<Fin(3, 2), Int64(0), Fin(1, 4), Int64(7)>>,
     <<Int64(0), Int64(0), Int64(0), Int64(0)>>}

QtyInit ==
    /\ arg \in QtyStrings \X QtyServings \X QtyValues
    /\ op = "input"
    /\ parsed = <<>>
    /\ foods = {}
    /\ aliases = {}
    /\ log = {}
    /\ nextFoodId = 1
    /\ nextLogId = 1
    /\ foreign_keys = FALSE
    /\ stdin = <<>>
    /\ stdout = <<>>
    /\ pc = "main"
    /\ ret = <<"Ok">>
    /\ calls = <<>>
    /\ logBefore = {}

\* parse_quantity on the first string
ParseQuantity ==
    /\ op = "input"
    /\ op' = "parse_quantity"
    /\ parsed' = parse_quantity(arg[1])
    /\ UNCHANGED <<foods, aliases, log, nextFoodId, nextLogId, arg, ret, calls, logBefore, foreign_keys>>
    /\ UNCHANGED <<stdin, stdout, pc>>

\* to_grams on the value, with the first string as the unit
ToGrams ==
    /\ op = "input"
    /\ op' = "to_grams"
    /\ parsed' = to_grams(arg[3], arg[1])
    /\ UNCHANGED <<foods, aliases, log, nextFoodId, nextLogId, arg, ret, calls, logBefore, foreign_keys>>
    /\ UNCHANGED <<stdin, stdout, pc>>

\* parse_amount_multiplier on the first string as amount and the second as serving
Scale ==
    /\ op = "input"
    /\ op' = "parse_amount_multiplier"
    /\ parsed' = parse_amount_multiplier(arg[1], arg[2])
    /\ UNCHANGED <<foods, aliases, log, nextFoodId, nextLogId, arg, ret, calls, logBefore, foreign_keys>>
    /\ UNCHANGED <<stdin, stdout, pc>>

\* Food::calculate on a food of the second string as serving, with the first
\* string as amount
Calculate(m) ==
    /\ op = "input"
    /\ op' = "calculate"
    /\ LET food == FoodNew(<<"f","o","o","d">>, m[1], m[2], m[3], m[4], arg[2], <<>>)
       IN  parsed' = [food |-> food, macros |-> calculate(food, arg[1])]
    /\ UNCHANGED <<foods, aliases, log, nextFoodId, nextLogId, arg, ret, calls, logBefore, foreign_keys>>
    /\ UNCHANGED <<stdin, stdout, pc>>

QtyNext ==
    \/ ParseQuantity
    \/ ToGrams
    \/ Scale
    \/ \E m \in MacroPool : Calculate(m)

QtySpec == QtyInit /\ [][QtyNext]_vars


(***************************************************************************)
(* The log under every operation of the database on it                     *)
(***************************************************************************)
\* the names delete_food is given: a name in another letter case, a name as
\* stored, an alias, a name of no food
DeleteNames == {<<"R","i","b","e","y","e">>, <<"b","a","r","e"," ","b","a","r">>, <<"s","t","e","a","k">>, <<"t","o","f","u">>}

\* the ids delete_log_entry and edit_log_entry are given
LogIds == 1..MaxLog

EditAmount == {None, Some(<<"2","0","0","g">>)}

\* the days of history asked for: the default of the get_history tool
HistoryDays == {7}

\* chomp delete
DeleteFood(name) ==
    /\ LET r == delete_food(Db, name, foreign_keys)
       IN  /\ foods' = r.foods
           /\ aliases' = r.aliases
           /\ ret' = r.ret
    /\ op' = "delete_food"
    /\ arg' = name
    /\ calls' = <<>>
    /\ logBefore' = log
    /\ UNCHANGED <<log, nextFoodId, nextLogId, parsed, foreign_keys>>
    /\ UNCHANGED <<stdin, stdout, pc>>

\* Database::delete_log_entry
DeleteLogEntry(id) ==
    /\ LET r == delete_log_entry(Db, id)
       IN  /\ log' = r.log
           /\ ret' = r.ret
    /\ op' = "delete_log_entry"
    /\ arg' = <<id>>
    /\ calls' = <<>>
    /\ logBefore' = log
    /\ UNCHANGED <<foods, aliases, nextFoodId, nextLogId, parsed, foreign_keys>>
    /\ UNCHANGED <<stdin, stdout, pc>>

\* Database::delete_last_log_entry
DeleteLastLogEntry ==
    /\ LET r == delete_last_log_entry(Db)
       IN  /\ log' = r.log
           /\ ret' = r.ret
    /\ op' = "delete_last_log_entry"
    /\ arg' = <<>>
    /\ calls' = <<>>
    /\ logBefore' = log
    /\ UNCHANGED <<foods, aliases, nextFoodId, nextLogId, parsed, foreign_keys>>
    /\ UNCHANGED <<stdin, stdout, pc>>

\* Database::edit_log_entry
EditLogEntry(id, amount, protein, fat, carbs) ==
    /\ LET r == edit_log_entry(Db, id, amount, protein, fat, carbs)
       IN  /\ log' = r.log
           /\ ret' = r.ret
    /\ op' = "edit_log_entry"
    /\ arg' = <<id, amount, protein, fat, carbs>>
    /\ calls' = <<>>
    /\ logBefore' = log
    /\ UNCHANGED <<foods, aliases, nextFoodId, nextLogId, parsed, foreign_keys>>
    /\ UNCHANGED <<stdin, stdout, pc>>

\* chomp today / the get_today tool
GetToday ==
    /\ ret' = <<"Ok", get_today_totals(Db)>>
    /\ op' = "get_today_totals"
    /\ arg' = <<>>
    /\ calls' = <<>>
    /\ logBefore' = log
    /\ UNCHANGED <<foods, aliases, log, nextFoodId, nextLogId, parsed, foreign_keys>>
    /\ UNCHANGED <<stdin, stdout, pc>>

\* chomp history / the get_history tool
GetHistory(days) ==
    /\ ret' = get_history(Db, days)
    /\ op' = "get_history"
    /\ arg' = <<days>>
    /\ calls' = <<>>
    /\ logBefore' = log
    /\ UNCHANGED <<foods, aliases, log, nextFoodId, nextLogId, parsed, foreign_keys>>
    /\ UNCHANGED <<stdin, stdout, pc>>

LogNext ==
    \/ \E food \in FoodPool : AddFood(food)
    \/ \E input \in LogInputs : ParseAndLog(input)
    \/ \E name \in DeleteNames : DeleteFood(name)
    \/ \E id \in LogIds : DeleteLogEntry(id)
    \/ DeleteLastLogEntry
    \/ GetToday
    \/ \E days \in HistoryDays : GetHistory(days)

LogSpec == Init /\ [][LogNext]_vars

(***************************************************************************)
(* The entries of the log under edit_log_entry                             *)
(***************************************************************************)
\* the texts logged before the edits: one serving of an entry whose stored
\* calories are not 4 * protein + 9 * fat + 4 * carbs, a default amount of an
\* entry whose calories are, and a name of no entry
EntryInputs == {<<"r","i","b","e","y","e">>, <<"b","a","r","e"," ","b","a","r">>, <<"t","o","f","u">>}

\* the id edit_log_entry is given: that of the first entry logged, which is of
\* no entry while the log is empty
EntryIds == {1}

EntryNext ==
    \/ \E food \in {Ribeye, BareBar} : AddFood(food)
    \/ \E input \in EntryInputs : ParseAndLog(input)
    \/ \E id \in EntryIds, amount \in EditAmount, protein \in EditProtein,
          fat \in EditFat, carbs \in EditCarbs :
            EditLogEntry(id, amount, protein, fat, carbs)

EntrySpec == Init /\ [][EntryNext]_vars

(***************************************************************************)
(* src/mcp.rs: the line-delimited remote-procedure server                  *)
(*                                                                         *)
(* A line of the input is a text that is no JSON document, the one-line    *)
(* text of a JSON document, or bytes that are not UTF-8.  A JSON value is  *)
(* a record of its type t and its content v; an object's content is a      *)
(* record of its members.                                                  *)
(***************************************************************************)
\* serde_json::Value
JsonNull == [t |-> "null"]

JsonString(s) == [t |-> "str", v |-> s]

JsonNumber(x) == [t |-> "num", v |-> x]

JsonArray(a) == [t |-> "arr", v |-> a]

JsonObject(members) == [t |-> "obj", v |-> members]

\* value[key]: Null when the value is no object or has no such member
Index(value, key) ==
    IF value.t = "obj" /\ key \in DOMAIN value.v THEN value.v[key] ELSE JsonNull

as_str(value) == IF value.t = "str" THEN Some(value.v) ELSE None

as_f64(value) == IF value.t = "num" THEN Some(value.v) ELSE None

\* Value::as_u64: the number when it is a whole number that is not negative
as_u64(value) ==
    IF value.t = "num" /\ value.v.k = "fin" /\ value.v.d = 1 /\ value.v.n >= 0
    THEN Some(value.v.n) ELSE None

as_array(value) == IF value.t = "arr" THEN Some(value.v) ELSE None

\* arr.iter().filter_map(|v| v.as_str().map(String::from)).collect()
RECURSIVE Strings(_)
Strings(a) ==
    IF Len(a) = 0 THEN <<>>
    ELSE (IF IsSome(as_str(a[1])) THEN <<Unwrap(as_str(a[1]))>> ELSE <<>>) \o Strings(Tail(a))

TextLine(text) == [kind |-> "text", text |-> text]

JsonLine(doc) == [kind |-> "json", doc |-> doc]

NotUtf8 == [kind |-> "bytes"]

\* line.trim().is_empty()
IsBlank(line) == line.kind = "text" /\ trim(line.text) = <<>>

\* serde_json::from_str::<JsonRpcRequest>: the request of a document that is an
\* object with the strings jsonrpc and method; id and params are optional, and
\* an id of null is an id left out
from_str(line) ==
    IF line.kind # "json" THEN <<"Err", "expected value">>
    ELSE IF line.doc.t # "obj" THEN <<"Err", "invalid type">>
    ELSE IF ~IsSome(as_str(Index(line.doc, "jsonrpc"))) THEN <<"Err", "missing field", "jsonrpc">>
    ELSE IF ~IsSome(as_str(Index(line.doc, "method"))) THEN <<"Err", "missing field", "method">>
    ELSE <<"Ok", [jsonrpc |-> Unwrap(as_str(Index(line.doc, "jsonrpc"))),
                  id |-> IF Index(line.doc, "id").t = "null" THEN None
                         ELSE Some(Index(line.doc, "id")),
                  method |-> Unwrap(as_str(Index(line.doc, "method"))),
                  params |-> Index(line.doc, "params")]>>

\* JsonRpcResponse
Success(id, value) ==
    [jsonrpc |-> "2.0", id |-> id, result |-> Some(value), error |-> None]

Failure(id, code, message) ==
    [jsonrpc |-> "2.0", id |-> id, result |-> None,
     error |-> Some([code |-> code, message |-> message])]

\* the tables as a call leaves them, and what it returns
Leaves(db, returned) ==
    [foods |-> db.foods, aliases |-> db.aliases, nextFoodId |-> db.nextFoodId,
     log |-> db.log, nextLogId |-> db.nextLogId, ret |-> returned]

\* the letters of the query are found in the name in their order
RECURSIVE fuzzy_match(_, _)
fuzzy_match(name, query) ==
    IF Len(query) = 0 THEN TRUE
    ELSE IF Len(name) = 0 THEN FALSE
    ELSE IF name[1] = query[1] THEN fuzzy_match(Tail(name), Tail(query))
    ELSE fuzzy_match(Tail(name), query)

\* Database::search_foods: the foods whose name matches the query (the order
\* of their scores is not modelled)
search_foods(db, query) ==
    {RowToFood(f) : f \in {g \in db.foods :
                              fuzzy_match(to_lowercase(g.name), to_lowercase(query))}}

\* handle_tools_call: the tables after the call and Ok(value), Err(message) or
\* the panic the call ends in
handle_tools_call(db, params) ==
    LET tool_name == unwrap_or(as_str(Index(params, "name")), <<>>)
        arguments == Index(params, "arguments")
        str(key) == as_str(Index(arguments, key))
        num(key) == as_f64(Index(arguments, key))
        Missing(key) == Leaves(db, <<"Err", "Missing argument", key>>)
    IN  IF tool_name = <<"l","o","g","_","f","o","o","d">>
        THEN IF ~IsSome(str("food")) THEN Missing("food")
             ELSE Bind(parse_and_log(db, Unwrap(str("food"))), LAMBDA entry :
                      [foods |-> db.foods, aliases |-> db.aliases,
                       nextFoodId |-> db.nextFoodId,
                       log |-> entry.log, nextLogId |-> entry.nextLogId,
                       ret |-> entry.ret])
        ELSE IF tool_name = <<"s","e","a","r","c","h","_","f","o","o","d">>
        THEN IF ~IsSome(str("query")) THEN Missing("query")
             ELSE Leaves(db, <<"Ok", search_foods(db, Unwrap(str("query")))>>)
        ELSE IF tool_name = <<"a","d","d","_","f","o","o","d">>
        THEN IF ~IsSome(str("name")) THEN Missing("name")
             ELSE IF ~IsSome(num("protein")) THEN Missing("protein")
             ELSE IF ~IsSome(num("fat")) THEN Missing("fat")
             ELSE IF ~IsSome(num("carbs")) THEN Missing("carbs")
             ELSE IF ~IsSome(str("serving")) THEN Missing("serving")
             ELSE LET protein == Unwrap(num("protein"))
                      fat == Unwrap(num("fat"))
                      carbs == Unwrap(num("carbs"))
                      calories == unwrap_or(num("calories"),
                                            FAdd(FAdd(FMul(protein, Int64(4)),
                                                      FMul(fat, Int64(9))),
                                                 FMul(carbs, Int64(4))))
                      als == IF IsSome(as_array(Index(arguments, "aliases")))
                             THEN Strings(Unwrap(as_array(Index(arguments, "aliases"))))
                             ELSE <<>>
                      food == FoodNew(Unwrap(str("name")), protein, fat, carbs, calories,
                                      Unwrap(str("serving")), als)
                      added == add_food(db, food)
                  IN  [foods |-> added.foods, aliases |-> added.aliases,
                       nextFoodId |-> added.nextFoodId,
                       log |-> db.log, nextLogId |-> db.nextLogId,
                       ret |-> IF added.ret[1] = "Ok" THEN <<"Ok", "Added", food.name>>
                               ELSE added.ret]
        ELSE IF tool_name = <<"g","e","t","_","t","o","d","a","y">>
        THEN Leaves(db, <<"Ok", get_today_totals(db)>>)
        ELSE IF tool_name = <<"g","e","t","_","h","i","s","t","o","r","y">>
        THEN Leaves(db, get_history(db, unwrap_or(as_u64(Index(arguments, "days")), 7)))
        ELSE Leaves(db, <<"Err", "Unknown tool", tool_name>>)

\* handle_request: the tables after the request and the response to it, or
\* the panic the request ends in
handle_request(db, request) ==
    LET id == unwrap_or(request.id, JsonNull)
        result ==
            IF request.method = <<"i","n","i","t","i","a","l","i","z","e">>
            THEN Leaves(db, <<"Ok", "serverInfo">>)
            ELSE IF request.method = <<"t","o","o","l","s","/","l","i","s","t">>
            THEN Leaves(db, <<"Ok", "tools">>)
            ELSE IF request.method = <<"t","o","o","l","s","/","c","a","l","l">>
            THEN handle_tools_call(db, request.params)
            ELSE IF request.method = <<"n","o","t","i","f","i","c","a","t","i","o","n","s","/","i","n","i","t","i","a","l","i","z","e","d">>
            THEN Leaves(db, <<"Ok", JsonNull>>)
            ELSE Leaves(db, <<"Err", "Method not found", request.method>>)
    IN  [result EXCEPT !.ret =
            IF @[1] = "Ok" THEN <<"Ok", Success(id, @[2])>>
            ELSE IF @[1] = "Err" THEN <<"Ok", Failure(id, -32603, @)>>
            ELSE @]

\* a request with an id, and one without
Call(id, method, params) ==
    JsonLine(JsonObject([jsonrpc |-> JsonString(<<"2",".","0">>), id |-> JsonNumber(Int64(id)),
                         method |-> JsonString(method), params |-> params]))

Notify(method) ==
    JsonLine(JsonObject([jsonrpc |-> JsonString(<<"2",".","0">>), method |-> JsonString(method)]))

\* the params of tools/call
Tool(name, arguments) ==
    JsonObject([name |-> JsonString(name), arguments |-> JsonObject(arguments)])

\* the lines the server is sent: blank lines, lines that are no request, and
\* requests of every method and tool, with and without an id, that succeed,
\* fail, or fail or succeed by what came before
ServeLines ==
    {TextLine(<<>>), TextLine(<<" ","\t">>), TextLine(<<"{">>), NotUtf8,
     JsonLine(JsonObject([jsonrpc |-> JsonString(<<"2",".","0">>), id |-> JsonNumber(Int64(1))])),
     Call(1, <<"i","n","i","t","i","a","l","i","z","e">>, JsonNull),
     Notify(<<"n","o","t","i","f","i","c","a","t","i","o","n","s","/","i","n","i","t","i","a","l","i","z","e","d">>),
     Notify(<<"t","o","o","l","s","/","l","i","s","t">>),
     Call(2, <<"r","e","s","o","u","r","c","e","s","/","l","i","s","t">>, JsonNull),
     Call(3, <<"t","o","o","l","s","/","c","a","l","l">>,
          Tool(<<"a","d","d","_","f","o","o","d">>, [name |-> JsonString(<<"r","i","b","e","y","e">>), protein |-> JsonNumber(Int64(23)),
                             fat |-> JsonNumber(Int64(15)), carbs |-> JsonNumber(Int64(0)),
                             serving |-> JsonString(<<"1","0","0","g">>),
                             aliases |-> JsonArray(<<JsonString(<<"s","t","e","a","k">>)>>)])),
     Call(4, <<"t","o","o","l","s","/","c","a","l","l">>, Tool(<<"l","o","g","_","f","o","o","d">>, [food |-> JsonString(<<"s","t","e","a","k"," ","2","0","0","g">>)])),
     Call(5, <<"t","o","o","l","s","/","c","a","l","l">>, Tool(<<"l","o","g","_","f","o","o","d">>, [amount |-> JsonString(<<"2","0","0","g">>)])),
     Call(6, <<"t","o","o","l","s","/","c","a","l","l">>, Tool(<<"g","e","t","_","t","o","d","a","y">>, [days |-> JsonNull])),
     Call(7, <<"t","o","o","l","s","/","c","a","l","l">>, Tool(<<"g","e","t","_","h","i","s","t","o","r","y">>, [days |-> JsonNull])),
     Call(8, <<"t","o","o","l","s","/","c","a","l","l">>, Tool(<<"g","e","t","_","h","i","s","t","o","r","y">>, [days |-> JsonNumber(Int64(2000000000))])),
     Call(9, <<"t","o","o","l","s","/","c","a","l","l">>, Tool(<<"s","e","a","r","c","h","_","f","o","o","d">>, [query |-> JsonString(<<"r","i","b">>)])),
     Call(10, <<"t","o","o","l","s","/","c","a","l","l">>, Tool(<<"w","e","i","g","h">>, [food |-> JsonString(<<"r","i","b","e","y","e">>)]))}

\* serve, before its loop: the database opened and its tables created
ServeInit ==
    /\ foods = {}
    /\ aliases = {}
    /\ log = {}
    /\ nextFoodId = 1
    /\ nextLogId = 1
    /\ foreign_keys \in BOOLEAN
    /\ stdin = <<>>
    /\ stdout = <<>>
    /\ pc = "read"
    /\ op = "serve"
    /\ arg = <<>>
    /\ ret = <<"Ok">>
    /\ calls = <<>>
    /\ logBefore = {}
    /\ parsed = <<>>

\* the loop takes the next line of the input: a line that cannot be read ends
\* serve with the error, a blank line is passed over
ReadLine(line) ==
    /\ pc = "read"
    /\ Len(stdin) < MaxLines
    /\ stdin' = Append(stdin, line)
    /\ pc' = IF line.kind = "bytes" THEN "failed"
             ELSE IF IsBlank(line) THEN "read"
             ELSE "handle"
    /\ op' = "read_line"
    /\ arg' = line
    /\ ret' = IF line.kind = "bytes" THEN <<"Err", "stream did not contain valid UTF-8">>
              ELSE <<"Ok">>
    /\ calls' = <<>>
    /\ logBefore' = log
    /\ UNCHANGED <<foods, aliases, log, nextFoodId, nextLogId, foreign_keys, parsed, stdout>>

\* the loop parses the line taken, handles the request and writes the response
HandleLine ==
    /\ pc = "handle"
    /\ LET line == stdin[Len(stdin)]
           request == from_str(line)
       IN  IF request[1] = "Err"
           THEN /\ stdout' = Append(stdout, Failure(JsonNull, -32700, <<"Parse error", request>>))
                /\ pc' = "read"
                /\ ret' = <<"Ok">>
                /\ UNCHANGED <<foods, aliases, log, nextFoodId, nextLogId>>
           ELSE Bind(handle_request(Db, request[2]), LAMBDA r :
                    /\ foods' = r.foods
                    /\ aliases' = r.aliases
                    /\ nextFoodId' = r.nextFoodId
                    /\ log' = r.log
                    /\ nextLogId' = r.nextLogId
                    /\ ret' = r.ret
                    /\ IF r.ret[1] = "panic"
                       THEN pc' = "panicked" /\ stdout' = stdout
                       ELSE pc' = "read" /\ stdout' = Append(stdout, r.ret[2]))
    /\ op' = "handle_request"
    /\ arg' = stdin[Len(stdin)]
    /\ calls' = <<>>
    /\ logBefore' = log
    /\ UNCHANGED <<foreign_keys, parsed, stdin>>

\* the input ends, and serve returns
EndOfInput ==
    /\ pc = "read"
    /\ pc' = "done"
    /\ op' = "end_of_input"
    /\ arg' = <<>>
    /\ ret' = <<"Ok">>
    /\ calls' = <<>>
    /\ logBefore' = log
    /\ UNCHANGED <<foods, aliases, log, nextFoodId, nextLogId, foreign_keys, parsed,
                   stdin, stdout>>

ServeNext ==
    \/ \E line \in ServeLines : ReadLine(line)
    \/ HandleLine
    \/ EndOfInput

ServeSpec == ServeInit /\ [][ServeNext]_vars
(***************************************************************************)
(* Properties of parse_and_log (specification Spec)                        *)
(***************************************************************************)
IsParseAndLog == op = "parse_and_log"

Succeeded == IsParseAndLog /\ ret[1] = "Ok"

FailedWith(kind) == IsParseAndLog /\ ret[1] = "Err" /\ ret[2] = kind

CallCount(name) == Cardinality({i \in 1..Len(calls) : calls[i] = name})

\* what the tokenizer made of the text of the last call
Tokenized == parse_input(arg)

\* the catalog entry the last call looked up (the catalog is not changed by the call)
Found == get_food_by_name(Db, Tokenized[1])

\* the quantity phrase by the stated priority: explicit, default_amount, serving
ChosenPhrase(explicit, food) ==
    CASE IsSome(explicit) -> Unwrap(explicit)
      [] ~IsSome(explicit) /\ IsSome(food.default_amount) -> Unwrap(food.default_amount)
      [] OTHER -> food.serving

\* C1: a call that fails with FoodNotFound or UnscalableQuantity has not called
\* the log sink, and the log holds exactly the rows it held before the call
C1_FailureLogsNothing ==
    (FailedWith("Food not found") \/ FailedWith("Could not calculate macros"))
        => /\ CallCount("log_food") = 0
           /\ log = logBefore
           /\ (FailedWith("Food not found") <=> ~IsSome(Found))

\* a call on a log that already holds a row fails because scaling returns none
C1_Witness ==
    /\ FailedWith("Could not calculate macros")
    /\ logBefore # {}
    /\ IsSome(Found)

\* C2: the phrase scaled by and stored is the explicit one if there is one, else
\* the entry's default_amount if set, else the entry's serving
C2_AmountPriority ==
    (IsParseAndLog /\ IsSome(Found)) =>
        LET food == Unwrap(Found)
            phrase == ChosenPhrase(Tokenized[2], food)
            scaled == parse_amount_multiplier(phrase, food.serving)
        IN  /\ Succeeded =>
                /\ ret[2].amount = phrase
                /\ \A row \in log \ logBefore : row.amount = phrase
                /\ IsSome(scaled)
                /\ ret[2].protein = FMul(food.protein, Unwrap(scaled))
            /\ FailedWith("Could not calculate macros") =>
                /\ ret[3] = phrase
                /\ ~IsSome(scaled)

\* no explicit phrase and a default_amount: the default is stored, not the serving
C2_Witness ==
    /\ Succeeded
    /\ ~IsSome(Tokenized[2])
    /\ IsSome(Unwrap(Found).default_amount)
    /\ Unwrap(Found).default_amount # Some(Unwrap(Found).serving)
    /\ ret[2].amount = Unwrap(Unwrap(Found).default_amount)

\* C3: a successful call appends exactly one row and changes no other; the row
\* and the returned entry carry the food's id, the chosen phrase, and each
\* per-serving macro times the multiplier
C3_SuccessAppendsOneRow ==
    Succeeded =>
        LET food == Unwrap(Found)
            phrase == ChosenPhrase(Tokenized[2], food)
            m == Unwrap(parse_amount_multiplier(phrase, food.serving))
            added == log \ logBefore
        IN  /\ logBefore \subseteq log
            /\ Cardinality(added) = 1
            /\ \A row \in added :
                /\ \A old \in logBefore : old.id # row.id
                /\ row.food_id = Unwrap(food.id)
                /\ row.amount = phrase
                /\ row.protein = FMul(food.protein, m)
                /\ row.fat = FMul(food.fat, m)
                /\ row.carbs = FMul(food.carbs, m)
                /\ row.calories = FMul(food.calories, m)
                /\ ret[2].id = Some(row.id)
                /\ ret[2].food_id = row.food_id
                /\ ret[2].food_name = food.name
                /\ ret[2].amount = row.amount
                /\ ret[2].protein = row.protein
                /\ ret[2].fat = row.fat
                /\ ret[2].carbs = row.carbs
                /\ ret[2].calories = row.calories

\* a successful call on a log that already holds a row, with a multiplier that
\* is not 1
C3_Witness ==
    /\ Succeeded
    /\ logBefore # {}
    /\ Cardinality(log) = Cardinality(logBefore) + 1
    /\ ret[2].calories # Unwrap(Found).calories

\* C4: in every call the lookup is called at most once and the log sink at most
\* once, and the log sink only after the lookup has returned an entry
C4_CollaboratorsAtMostOnce ==
    IsParseAndLog =>
        /\ CallCount("get_food_by_name") <= 1
        /\ CallCount("log_food") <= 1
        /\ \A i \in 1..Len(calls) :
              calls[i] = "log_food" =>
                  /\ \E j \in 1..(i - 1) : calls[j] = "get_food_by_name"
                  /\ IsSome(Found)

\* a call that made both collaborator calls
C4_Witness ==
    /\ IsParseAndLog
    /\ calls = <<"get_food_by_name", "log_food">>

\* the serving of the food parses and normalizes to zero grams
ServingIsZeroGrams(food) ==
    LET s == parse_quantity(food.serving)
    IN  /\ IsSome(s)
        /\ IsZero(Unwrap(to_grams(Unwrap(s)[1], Unwrap(s)[2])))

\* C10: when the serving normalizes to zero grams the scaler returns None for
\* every amount, and parse_and_log fails with UnscalableQuantity without logging
C10_ZeroServingFails ==
    (IsParseAndLog /\ IsSome(Found) /\ ServingIsZeroGrams(Unwrap(Found))) =>
        /\ \A a \in {<<"8","o","z">>, <<"0","g">>, <<"1","0","0","g">>, <<"1"," ","b","a","r">>} :
              ~IsSome(parse_amount_multiplier(a, Unwrap(Found).serving))
        /\ FailedWith("Could not calculate macros")
        /\ log = logBefore

(***************************************************************************)
(* Properties of the tokenizer (specification TokSpec)                     *)
(***************************************************************************)
Tokenizing == op = "parse_input"

\* the whitespace-separated tokens of the text
Words == split_whitespace(trim(arg))

NWords == Len(Words)

Rule3Result ==
    <<join(SubSeq(Words, 1, NWords - 2)), Some(Words[NWords - 1] \o <<" ">> \o Words[NWords])>>

Rule4Result == <<join(SubSeq(Words, 1, NWords - 1)), Some(Words[NWords])>>

Rule5Result == <<join(Tail(Words)), Some(Words[1])>>

Rule6Result == <<trim(arg), None>>

\* the tests the code's rules make
Rule3Matches == is_number(Words[NWords - 1]) /\ is_unit(Words[NWords])

Rule4Matches == is_amount(Words[NWords])

Rule5Matches == is_number(Words[1])

\* the fixed unit vocabulary of the specification
MassUnits ==
    {<<"g">>, <<"g","r","a","m">>, <<"g","r","a","m","s">>, <<"o","z">>, <<"o","u","n","c","e">>, <<"o","u","n","c","e","s">>, <<"l","b">>, <<"l","b","s">>, <<"p","o","u","n","d">>,
     <<"p","o","u","n","d","s">>, <<"k","g">>, <<"k","i","l","o","g","r","a","m">>, <<"k","i","l","o","g","r","a","m","s">>}

VolumeUnits ==
    {<<"m","l">>, <<"m","i","l","l","i","l","i","t","e","r">>, <<"m","i","l","l","i","l","i","t","e","r","s">>, <<"l">>, <<"l","i","t","e","r">>, <<"l","i","t","e","r","s">>, <<"c","u","p">>, <<"c","u","p","s">>,
     <<"t","b","s","p">>, <<"t","a","b","l","e","s","p","o","o","n">>, <<"t","a","b","l","e","s","p","o","o","n","s">>, <<"t","s","p">>, <<"t","e","a","s","p","o","o","n">>, <<"t","e","a","s","p","o","o","n","s">>}

DiscreteUnits ==
    {<<"b","a","r">>, <<"b","a","r","s">>, <<"p","i","e","c","e">>, <<"p","i","e","c","e","s">>, <<"s","e","r","v","i","n","g">>, <<"s","e","r","v","i","n","g","s">>, <<"s","c","o","o","p">>, <<"s","c","o","o","p","s">>,
     <<"s","l","i","c","e">>, <<"s","l","i","c","e","s">>}

UnitVocabulary == MassUnits \cup VolumeUnits \cup DiscreteUnits

IsUnitWord(tok) == to_lowercase(tok) \in UnitVocabulary

\* the token is a numeric literal with a finite value
IsFiniteNumber(tok) == IsSome(ParseF64(tok)) /\ is_finite(Unwrap(ParseF64(tok)))

\* the token is a number immediately followed by a word of the vocabulary
IsNumberUnit(tok) ==
    \E k \in 1..(Len(tok) - 1) :
        /\ IsSome(ParseF64(SubSeq(tok, 1, k)))
        /\ IsUnitWord(SubSeq(tok, k + 1, Len(tok)))

\* C5: on two or more tokens the rules are tried in the order 3, 4, 5, 6 and the
\* first one that matches gives the result
C5_RuleOrder ==
    (Tokenizing /\ NWords >= 2) =>
        /\ Rule3Matches => parsed = Rule3Result
        /\ (~Rule3Matches /\ Rule4Matches) => parsed = Rule4Result
        /\ (~Rule3Matches /\ ~Rule4Matches /\ Rule5Matches) => parsed = Rule5Result
        /\ (~Rule3Matches /\ ~Rule4Matches /\ ~Rule5Matches) => parsed = Rule6Result

\* "2 bars" matches rules 3 and 5 and gets rule 3's result
C5_Witness ==
    /\ Tokenizing
    /\ arg = <<"2"," ","b","a","r","s">>
    /\ Rule3Matches /\ Rule5Matches
    /\ parsed = <<<<>>, Some(<<"2"," ","b","a","r","s">>)>>
    /\ parsed # Rule5Result

\* C6: on two or more tokens rule 3 matches exactly when the second-last token
\* parses as a finite number and the last is a word of the unit vocabulary, and
\* then gives the two tokens joined by a space and the earlier tokens as name
C6_Rule3ExactlyFiniteNumberUnit ==
    (Tokenizing /\ NWords >= 2) =>
        ((IsFiniteNumber(Words[NWords - 1]) /\ IsUnitWord(Words[NWords]))
            <=> parsed = Rule3Result)

\* C7: on two or more tokens that rule 3 does not match, a last token that is a
\* number immediately followed by any word of the unit vocabulary is the
\* quantity phrase, and the tokens before it are the food name
C7_Rule4AnyUnitWord ==
    (Tokenizing /\ NWords >= 2 /\ ~Rule3Matches /\ IsNumberUnit(Words[NWords]))
        => parsed = Rule4Result

\* C8: on two or more tokens that neither rule 3 nor rule 4 matches, a first
\* token that is a number is the quantity phrase on its own and the rest is the
\* name; otherwise the whole (trimmed) text is the name and there is no quantity
C8_Rule5ThenRule6 ==
    (Tokenizing /\ NWords >= 2 /\ ~Rule3Matches /\ ~Rule4Matches) =>
        /\ IsSome(ParseF64(Words[1])) =>
              /\ parsed[2] = Some(Words[1])
              /\ parsed[1] = join(SubSeq(Words, 2, NWords))
        /\ ~IsSome(ParseF64(Words[1])) =>
              /\ parsed[2] = None
              /\ parsed[1] = trim(arg)

\* "2 eggs" gives ("eggs", "2")
C8_Witness ==
    /\ Tokenizing
    /\ arg = <<"2"," ","e","g","g","s">>
    /\ parsed = <<<<"e","g","g","s">>, Some(<<"2">>)>>

\* C9: a text of one token, a number or number+unit included, is the food name
\* and there is no quantity phrase
C9_SingleTokenIsName ==
    (Tokenizing /\ NWords = 1) => parsed = <<Words[1], None>>

\* the single token "8oz" is a name
C9_Witness ==
    /\ Tokenizing
    /\ arg = <<"8","o","z">>
    /\ is_amount(Words[1])
    /\ parsed = <<<<"8","o","z">>, None>>

(***************************************************************************)
(* Properties of the quantity functions (specification QtySpec)            *)
(***************************************************************************)
Scaling == op = "parse_amount_multiplier"

Calculating == op = "calculate"

Normalizing == op = "to_grams"

Splitting == op = "parse_quantity"

\* C11: the multiplier is None if the amount or the serving fails parse_quantity;
\* otherwise, the serving not being zero grams, it is the amount in grams divided
\* by the serving in grams, both by parse_quantity and to_grams
C11_MultiplierIsGramRatio ==
    Scaling =>
        LET a == parse_quantity(arg[1])
            s == parse_quantity(arg[2])
        IN  /\ (~IsSome(a) \/ ~IsSome(s)) => parsed = None
            /\ (IsSome(a) /\ IsSome(s)) =>
                  LET amount_grams == Unwrap(to_grams(Unwrap(a)[1], Unwrap(a)[2]))
                      serving_grams == Unwrap(to_grams(Unwrap(s)[1], Unwrap(s)[2]))
                  IN  ~IsZero(serving_grams) =>
                          parsed = Some(FDiv(amount_grams, serving_grams))

\* 8 oz of a 100 g serving: 8 * 28.3495 / 100
C11_Witness ==
    /\ Scaling
    /\ arg[1] = <<"8","o","z">>
    /\ arg[2] = <<"1","0","0","g">>
    /\ parsed = Some(Fin(8 * 283495, 1000000))

\* C12: with a serving of "100g", calculate("100g") gives the per-serving macros
\* themselves and calculate("200g") gives each of them doubled
C12_ScalingRoundTrip ==
    (Calculating /\ parsed.food.serving = <<"1","0","0","g">>) =>
        LET f == parsed.food
        IN  /\ arg[1] = <<"1","0","0","g">> =>
                  parsed.macros = Some([protein |-> f.protein, fat |-> f.fat,
                                        carbs |-> f.carbs, calories |-> f.calories])
            /\ arg[1] = <<"2","0","0","g">> =>
                  parsed.macros = Some([protein |-> FMul(f.protein, Int64(2)),
                                        fat |-> FMul(f.fat, Int64(2)),
                                        carbs |-> FMul(f.carbs, Int64(2)),
                                        calories |-> FMul(f.calories, Int64(2))])

\* 200 g of a 100 g serving of 247 kcal is 494 kcal
C12_Witness ==
    /\ Calculating
    /\ parsed.food.serving = <<"1","0","0","g">>
    /\ arg[1] = <<"2","0","0","g">>
    /\ parsed.food.calories = Int64(247)
    /\ Unwrap(parsed.macros).calories = Int64(494)

\* the conversion table of the specification: the factor of each unit word
TableFactor(u) ==
    CASE u \in {<<"g">>, <<"g","r","a","m">>, <<"g","r","a","m","s">>, <<"m","l">>, <<"m","i","l","l","i","l","i","t","e","r">>, <<"m","i","l","l","i","l","i","t","e","r","s">>} -> Int64(1)
      [] u \in {<<"o","z">>, <<"o","u","n","c","e">>, <<"o","u","n","c","e","s">>} -> Fin(283495, 10000)
      [] u \in {<<"l","b">>, <<"l","b","s">>, <<"p","o","u","n","d">>, <<"p","o","u","n","d","s">>} -> Fin(453592, 1000)
      [] u \in {<<"k","g">>, <<"k","i","l","o","g","r","a","m">>, <<"k","i","l","o","g","r","a","m","s">>} -> Int64(1000)
      [] u \in {<<"c","u","p">>, <<"c","u","p","s">>} -> Int64(240)
      [] u \in {<<"t","b","s","p">>, <<"t","a","b","l","e","s","p","o","o","n">>, <<"t","a","b","l","e","s","p","o","o","n","s">>} -> Int64(15)
      [] u \in {<<"t","s","p">>, <<"t","e","a","s","p","o","o","n">>, <<"t","e","a","s","p","o","o","n","s">>} -> Int64(5)
      [] u \in {<<"b","a","r">>, <<"b","a","r","s">>, <<"p","i","e","c","e">>, <<"p","i","e","c","e","s">>, <<"s","e","r","v","i","n","g">>, <<"s","e","r","v","i","n","g","s">>,
                <<"s","c","o","o","p">>, <<"s","c","o","o","p","s">>} -> Int64(100)

TableUnits ==
    {<<"g">>, <<"g","r","a","m">>, <<"g","r","a","m","s">>, <<"m","l">>, <<"m","i","l","l","i","l","i","t","e","r">>, <<"m","i","l","l","i","l","i","t","e","r","s">>,
     <<"o","z">>, <<"o","u","n","c","e">>, <<"o","u","n","c","e","s">>, <<"l","b">>, <<"l","b","s">>, <<"p","o","u","n","d">>, <<"p","o","u","n","d","s">>,
     <<"k","g">>, <<"k","i","l","o","g","r","a","m">>, <<"k","i","l","o","g","r","a","m","s">>, <<"c","u","p">>, <<"c","u","p","s">>,
     <<"t","b","s","p">>, <<"t","a","b","l","e","s","p","o","o","n">>, <<"t","a","b","l","e","s","p","o","o","n","s">>, <<"t","s","p">>, <<"t","e","a","s","p","o","o","n">>, <<"t","e","a","s","p","o","o","n","s">>,
     <<"b","a","r">>, <<"b","a","r","s">>, <<"p","i","e","c","e">>, <<"p","i","e","c","e","s">>, <<"s","e","r","v","i","n","g">>, <<"s","e","r","v","i","n","g","s">>, <<"s","c","o","o","p">>, <<"s","c","o","o","p","s">>}

\* C13: to_grams returns a result for every value and unit, and for a unit that
\* is not in the conversion table the result is the value itself
C13_ToGramsNeverFails ==
    Normalizing =>
        /\ IsSome(parsed)
        /\ to_lowercase(arg[1]) \notin TableUnits => parsed = Some(arg[3])

\* the empty unit: 100 stays 100
C13_Witness ==
    /\ Normalizing
    /\ arg[1] = <<>>
    /\ arg[3] = Int64(100)
    /\ parsed = Some(Int64(100))

FirstNonDigit(s) ==
    IF \E i \in 1..Len(s) : s[i] \notin (DOMAIN DigitValue \cup {"."})
    THEN CHOOSE i \in 1..Len(s) :
            /\ s[i] \notin (DOMAIN DigitValue \cup {"."})
            /\ \A j \in 1..(i - 1) : s[j] \in (DOMAIN DigitValue \cup {"."})
    ELSE Len(s) + 1

\* C15: parse_quantity trims and lower-cases the string and splits it at the
\* first character that is neither a digit nor a decimal point into a number and
\* a trimmed unit ("g" when there is no such character); it returns None exactly
\* when the numeric part does not parse as a finite number
C15_ParseQuantitySplits ==
    Splitting =>
        LET s == to_lowercase(trim(arg[1]))
            k == FirstNonDigit(s)
            num == ParseF64(SubSeq(s, 1, k - 1))
            unit == IF k <= Len(s) THEN trim(SubSeq(s, k, Len(s))) ELSE <<"g">>
        IN  IF IsSome(num) /\ is_finite(Unwrap(num))
            THEN parsed = Some(<<Unwrap(num), unit>>)
            ELSE parsed = None

\* the unit words whose factor is 1 in the conversion table
GramUnits == {<<"g">>, <<"g","r","a","m">>, <<"g","r","a","m","s">>, <<"m","l">>, <<"m","i","l","l","i","l","i","t","e","r">>, <<"m","i","l","l","i","l","i","t","e","r","s">>}

\* C20: a unit word the tokenizer recognizes has a conversion factor of its own
\* in to_grams: unless the table gives it the factor 1, a finite non-zero value
\* in that unit is not returned unchanged as if it were grams
C20_RecognizedUnitsHaveFactor ==
    (/\ Normalizing
     /\ is_unit(arg[1])
     /\ to_lowercase(arg[1]) \notin GramUnits
     /\ is_finite(arg[3]) /\ ~IsZero(arg[3]))
        => parsed # Some(arg[3])

(***************************************************************************)
(* More properties of parse_and_log (specification Spec)                   *)
(***************************************************************************)
\* C16: on a blank text (empty or only whitespace) parse_and_log fails with a
\* failure of its own, which is neither FoodNotFound nor UnscalableQuantity, and
\* logs nothing
C16_BlankInputIsEmptyInput ==
    (IsParseAndLog /\ trim(arg) = <<>>) =>
        /\ ret[1] = "Err"
        /\ ret[2] \notin {"Food not found", "Could not calculate macros"}
        /\ log = logBefore

(***************************************************************************)
(* Properties of edit_food (specification EditSpec)                        *)
(***************************************************************************)
\* 4 * protein + 9 * fat + 4 * carbs
CaloriesOf(f) ==
    FAdd(FAdd(FMul(f.protein, Int64(4)), FMul(f.fat, Int64(9))), FMul(f.carbs, Int64(4)))

\* C17: after an edit_food that found the food and returned Ok, by name or by
\* alias, the food's stored calories are 4 * protein + 9 * fat + 4 * carbs of its
\* stored macros
C17_EditRecomputesCalories ==
    (op = "edit_food" /\ ret[1] = "Ok") =>
        /\ IsSome(get_food_by_name(Db, arg))
        /\ Unwrap(get_food_by_name(Db, arg)).calories
              = CaloriesOf(Unwrap(get_food_by_name(Db, arg)))

(***************************************************************************)
(* More properties of the tokenizer (specification TokSpec)                *)
(***************************************************************************)
\* the suffix is_amount accepts the token by: the first of its units, in its
\* order, that the token ends with after a number
AmountUnit(tok) ==
    LET s == to_lowercase(tok)
        ok(unit) == ends_with(s, unit) /\ IsSome(ParseF64(SubSeq(s, 1, Len(s) - Len(unit))))
    IN  CASE ok(<<"g">>) -> <<"g">>
          [] ~ok(<<"g">>) /\ ok(<<"o","z">>) -> <<"o","z">>
          [] ~ok(<<"g">>) /\ ~ok(<<"o","z">>) /\ ok(<<"m","l">>) -> <<"m","l">>
          [] ~ok(<<"g">>) /\ ~ok(<<"o","z">>) /\ ~ok(<<"m","l">>) /\ ok(<<"l","b">>) -> <<"l","b">>
          [] ~ok(<<"g">>) /\ ~ok(<<"o","z">>) /\ ~ok(<<"m","l">>) /\ ~ok(<<"l","b">>) /\ ok(<<"k","g">>) -> <<"k","g">>
          [] OTHER -> <<"l">>

\* the number and the unit the tokenizer recognized in the phrase it returned
Recognized ==
    CASE Rule3Matches ->
            <<Unwrap(ParseF64(Words[NWords - 1])), to_lowercase(Words[NWords])>>
      [] ~Rule3Matches /\ Rule4Matches ->
            LET s == to_lowercase(Words[NWords])
                unit == AmountUnit(Words[NWords])
            IN  <<Unwrap(ParseF64(SubSeq(s, 1, Len(s) - Len(unit)))), unit>>
      [] OTHER -> <<Unwrap(ParseF64(Words[1])), <<"g">>>>

\* C18: when the tokenizer returns a quantity phrase, parse_quantity succeeds on
\* the phrase and gives the number and the unit the tokenizer recognized
C18_TokenizerAgreesWithParser ==
    (Tokenizing /\ NWords >= 2 /\ IsSome(parsed[2])) =>
        parse_quantity(Unwrap(parsed[2])) = Some(Recognized)

\* C19: the result depends on the tokens only: it is the result for the same
\* tokens separated by single spaces
C19_WhitespaceInvariant ==
    Tokenizing => parsed = parse_input(join(Words))


(***************************************************************************)
(* The log edited and deleted from                                         *)
(***************************************************************************)
\* the last call was edit_log_entry of an entry of the log, and it succeeded
EditedEntry ==
    /\ op = "edit_log_entry"
    /\ ret[1] = "Ok"

\* the rows the log holds for the id of the call
StoredRows == {l \in log : l.id = arg[1]}

\* the entry returned and the row stored agree on amount, macros and calories
SameFields(e, l) ==
    /\ e.amount = l.amount
    /\ e.protein = l.protein
    /\ e.fat = l.fat
    /\ e.carbs = l.carbs
    /\ e.calories = l.calories

\* C21: the LogEntry edit_log_entry returns equals the row stored in the log for
\* that id after the call, field for field (amount, protein, fat, carbs,
\* calories), for every combination of fields supplied and omitted
C21_EditReturnsStoredRow ==
    EditedEntry => \E l \in StoredRows : SameFields(ret[2], l)

\* C21 where it holds: a macro is supplied, or nothing is
C21_EditReturnsStoredRowUnlessAmountOnly ==
    (EditedEntry /\ ~(IsSome(arg[2]) /\ ~IsSome(arg[3]) /\ ~IsSome(arg[4]) /\ ~IsSome(arg[5])))
        => \E l \in StoredRows : SameFields(ret[2], l)

(***************************************************************************)
(* The totals of today and the history                                     *)
(***************************************************************************)
\* the entries of a history that are dated today
DatedToday(h) == SelectSeq(h, LAMBDA e : e.date = Today)

\* the sum of a column over the entries of a history
RECURSIVE HistorySum(_, _)
HistorySum(h, column) ==
    IF Len(h) = 0 THEN Int64(0)
    ELSE FAdd(h[1][column], HistorySum(Tail(h), column))

\* the component-wise sum of the macros over the entries of a history
HistoryTotals(h) ==
    [protein |-> HistorySum(h, "protein"), fat |-> HistorySum(h, "fat"),
     carbs |-> HistorySum(h, "carbs"), calories |-> HistorySum(h, "calories")]

\* C22: after any sequence of add_food, parse_and_log, delete_food,
\* delete_log_entry and delete_last_log_entry, the totals get_today_totals
\* returns are the component-wise sum of protein, fat, carbs and calories over
\* the entries dated today that get_history returns
C22_TotalsMatchHistory ==
    \A days \in HistoryDays :
        /\ get_history(Db, days)[1] = "Ok"
        /\ get_today_totals(Db) = HistoryTotals(DatedToday(get_history(Db, days)[2]))

\* C22 in its other wording: every row of the log dated today refers to a food
\* of the catalog
C22_NoRowOfDeletedFood ==
    \A l \in log : l.date = Today => \E f \in foods : f.id = l.food_id

\* C22 where SQLite enforces the foreign keys of the schema
C22_TotalsMatchHistoryWhenEnforced ==
    foreign_keys => (C22_TotalsMatchHistory /\ C22_NoRowOfDeletedFood)

(***************************************************************************)
(* The remote-procedure loop                                               *)
(***************************************************************************)
\* the lines read so far that are not blank
NonBlank == SelectSeq(stdin, LAMBDA l : ~IsBlank(l))

\* the line is a JSON-RPC request: an object with a version and a method
IsRequest(line) ==
    /\ line.kind = "json"
    /\ line.doc.t = "obj"
    /\ {"jsonrpc", "method"} \subseteq DOMAIN line.doc.v
    /\ line.doc.v.jsonrpc.t = "str"
    /\ line.doc.v.method.t = "str"

\* the id of a request, null when it has none
IdOf(line) == IF "id" \in DOMAIN line.doc.v THEN line.doc.v.id ELSE JsonNull

Methods == {<<"i","n","i","t","i","a","l","i","z","e">>, <<"t","o","o","l","s","/","l","i","s","t">>, <<"t","o","o","l","s","/","c","a","l","l">>, <<"n","o","t","i","f","i","c","a","t","i","o","n","s","/","i","n","i","t","i","a","l","i","z","e","d">>}

Tools == {<<"l","o","g","_","f","o","o","d">>, <<"s","e","a","r","c","h","_","f","o","o","d">>, <<"a","d","d","_","f","o","o","d">>, <<"g","e","t","_","t","o","d","a","y">>, <<"g","e","t","_","h","i","s","t","o","r","y">>}

IsToolCall(line) == IsRequest(line) /\ line.doc.v.method.v = <<"t","o","o","l","s","/","c","a","l","l">>

ToolOf(line) == line.doc.v.params.v.name.v

ArgumentsOf(line) == line.doc.v.params.v.arguments.v

\* a history of more days than dates exist
HistoryOutOfRange(line) ==
    /\ IsToolCall(line)
    /\ ToolOf(line) = <<"g","e","t","_","h","i","s","t","o","r","y">>
    /\ ArgumentsOf(line).days.t = "num"
    /\ ArgumentsOf(line).days.v.n > MaxHistoryDays

\* a tool call that fails whatever the tables hold: of no tool, without the
\* food to log, or of a history out of range
FailingToolCall(line) ==
    /\ IsToolCall(line)
    /\ \/ ToolOf(line) \notin Tools
       \/ ToolOf(line) = <<"l","o","g","_","f","o","o","d">> /\ "food" \notin DOMAIN ArgumentsOf(line)
       \/ HistoryOutOfRange(line)

IsError(response, code) ==
    /\ IsSome(response.error)
    /\ Unwrap(response.error).code = code
    /\ ~IsSome(response.result)

\* the response is the one the line is due
Answers(response, line) ==
    IF ~IsRequest(line)
    THEN IsError(response, -32700) /\ response.id = JsonNull
    ELSE /\ response.id = IdOf(line)
         /\ IsSome(response.error) # IsSome(response.result)
         /\ IsSome(response.error) => IsError(response, -32603)
         /\ (line.doc.v.method.v \notin Methods \/ FailingToolCall(line))
                => IsError(response, -32603)

\* one response for every line that is not blank, in the order of the lines,
\* written before the next line is read: the line being handled has none yet
ResponsesInStep ==
    /\ Len(stdout) = IF pc = "handle" THEN Len(NonBlank) - 1 ELSE Len(NonBlank)
    /\ \A i \in 1..Len(stdout) : i <= Len(NonBlank) /\ Answers(stdout[i], NonBlank[i])

\* C23: serve writes exactly one response line for every non-blank input line,
\* in input order and before reading the next line, and nothing for blank
\* lines; the response carries the request's id (null when absent); a line that
\* is not valid JSON-RPC yields an error response with code -32700 and null id,
\* an unknown method or failing tool call yields an error response with code
\* -32603, and no line stops the loop from serving later lines
C23_OneResponsePerLine ==
    /\ pc \in {"read", "handle", "done"}
    /\ ResponsesInStep

\* C23 on the lines that are text and whose history is within range
C23_OneResponsePerLineOfText ==
    (\A i \in 1..Len(stdin) : stdin[i].kind # "bytes" /\ ~HistoryOutOfRange(stdin[i]))
        => C23_OneResponsePerLine
====
